---------------------------- MODULE Spec2Model ----------------------------
(***************************************************************************)
(* Model of the PDF catalogue text pipeline: TextCleaner (cleaner.py),     *)
(* TextAssembler (assembler.py), QualityController (qc.py) and the driver  *)
(* process_pdf_catalog (main.py).                                          *)
(*                                                                         *)
(* A Python str is a sequence of Unicode code points: "pH" is <<112, 72>>, *)
(* Cyrillic A..YA is 1040..1071, a..ya is 1072..1103, YO is 1025 and yo is *)
(* 1105.  Python's None is the one-element sequence <<-1>>, which is no    *)
(* string.  Regular expressions are translated pattern by pattern into     *)
(* recursive scanners that follow the matching order of Python's re.       *)
(***************************************************************************)
EXTENDS Integers, Sequences, FiniteSets, TLC

None == <<-1>>

(***************************************************************************)
(* Character classes of Python's re and str                                *)
(***************************************************************************)
\* [A-YAa-ya] plus YO and yo: the class [А-ЯЁа-яё]
IsCyr(c) == (c >= 1040 /\ c <= 1103) \/ c = 1025 \/ c = 1105

\* [a-zA-Z]
IsLatin(c) == (c >= 65 /\ c <= 90) \/ (c >= 97 /\ c <= 122)

\* \d
IsDigit(c) == c >= 48 /\ c <= 57

\* \s and str.strip(): tab, newline, vertical tab, form feed, carriage return, space
IsSpace(c) == (c >= 9 /\ c <= 13) \/ c = 32

\* \w: Cyrillic, Latin and Greek letters, digits and the underscore
IsWord(c) ==
    \/ IsCyr(c)
    \/ IsLatin(c)
    \/ (c >= 913 /\ c <= 937) \/ (c >= 945 /\ c <= 969)
    \/ IsDigit(c)
    \/ c = 95

\* max(S) of a non-empty set of integers
Max(S) == CHOOSE x \in S : \A y \in S : x >= y

\* str.isupper() of one character: Latin, Greek and Cyrillic capitals
IsUpper(c) ==
    \/ c >= 65 /\ c <= 90
    \/ c >= 913 /\ c <= 937
    \/ c >= 1040 /\ c <= 1071
    \/ c = 1025

\* str.lower() of one character
LowerChar(c) ==
    IF (c >= 65 /\ c <= 90) \/ (c >= 1040 /\ c <= 1071) \/ (c >= 913 /\ c <= 937)
    THEN c + 32
    ELSE IF c = 1025 THEN 1105 ELSE c

\* str.lower()
Lower(s) == [i \in 1..Len(s) |-> LowerChar(s[i])]

\* [а-яёa-z] under re.IGNORECASE
IsLetter(c) == IsCyr(c) \/ IsLatin(c)

\* [a-zA-Z\s\-\.,]: the tail of the second group of title_pattern
IsEnTail(c) == IsLatin(c) \/ IsSpace(c) \/ c \in {45, 46, 44}

\* c is in the character class of that name:
\*   IsRoman       [IVX] under re.IGNORECASE
\*   IsTabOrBlank  the characters of str.lstrip('\t ')
\*   IsTitleRu     [А-ЯЁа-яё\s\-]
\*   IsTitleEn     [A-Za-z\s\-]
\*   IsDigitOrDot  [\d.]
\*   IsRuTail      [А-ЯЁа-яё\s\-\.,], the tail of the first group of title_pattern
InClass(class, c) ==
    CASE class = "IsSpace" -> IsSpace(c)
      [] class = "IsDigit" -> IsDigit(c)
      [] class = "IsWord" -> IsWord(c)
      [] class = "IsLetter" -> IsLetter(c)
      [] class = "IsRoman" -> LowerChar(c) \in {105, 118, 120}
      [] class = "IsTabOrBlank" -> c = 9 \/ c = 32
      [] class = "IsTitleRu" -> IsCyr(c) \/ IsSpace(c) \/ c = 45
      [] class = "IsTitleEn" -> IsLatin(c) \/ IsSpace(c) \/ c = 45
      [] class = "IsDigitOrDot" -> IsDigit(c) \/ c = 46
      [] class = "IsRuTail" -> IsCyr(c) \/ IsSpace(c) \/ c \in {45, 46, 44}
      [] class = "IsEnTail" -> IsEnTail(c)

(***************************************************************************)
(* str methods                                                             *)
(***************************************************************************)
\* s[i:], 1-based: the suffix that starts at position i
From(s, i) == SubSeq(s, i, Len(s))

\* the first position >= i whose character is not in the class (Len(s)+1 if
\* none)
RECURSIVE SkipWhile(_, _, _)
SkipWhile(class, s, i) ==
    IF i <= Len(s) /\ InClass(class, s[i]) THEN SkipWhile(class, s, i + 1) ELSE i

\* the last position <= i whose character is not whitespace (0 if none)
RECURSIVE SkipBackSpace(_, _)
SkipBackSpace(s, i) ==
    IF i >= 1 /\ IsSpace(s[i]) THEN SkipBackSpace(s, i - 1) ELSE i

\* s[:n]
Prefix(s, n) == SubSeq(s, 1, IF n < Len(s) THEN n ELSE Len(s))

\* str.lstrip()
LStrip(s) == From(s, SkipWhile("IsSpace", s, 1))

\* str.rstrip()
RStrip(s) == SubSeq(s, 1, SkipBackSpace(s, Len(s)))

\* str.strip()
Strip(s) == RStrip(LStrip(s))

\* s.startswith(p, i-1): p occurs in s at position i
MatchAt(s, i, p) ==
    /\ i + Len(p) - 1 <= Len(s)
    /\ \A k \in 1..Len(p) : s[i + k - 1] = p[k]

\* the lowercase word p matches at position i of s, case ignored
\* (re.IGNORECASE)
MatchAtLower(s, i, p) ==
    /\ i + Len(p) - 1 <= Len(s)
    /\ \A k \in 1..Len(p) : LowerChar(s[i + k - 1]) = p[k]

\* str.startswith
StartsWith(s, p) == MatchAt(s, 1, p)

\* p in s
Contains(s, p) == \E i \in 1..(Len(s) - Len(p) + 1) : MatchAt(s, i, p)

\* min(S) of a non-empty set of integers
Min(S) == CHOOSE x \in S : \A y \in S : x <= y

\* min(S), or 0 for the empty set
MinOrZero(S) == IF S = {} THEN 0 ELSE Min(S)

\* sorted(S)
RECURSIVE Sorted(_)
Sorted(S) ==
    IF S = {} THEN << >>
    ELSE << Min(S) >> \o Sorted(S \ {Min(S)})

\* the pieces of s between the positions cuts
Pieces(s, cuts) ==
    [k \in 1..(Len(cuts) - 1) |-> SubSeq(s, cuts[k] + 1, cuts[k + 1] - 1)]

\* str.split('\n'): the lines of a text, at least one
SplitLines(s) ==
    Pieces(s, << 0 >> \o Sorted({i \in 1..Len(s) : s[i] = 10}) \o << Len(s) + 1 >>)

\* sep.join(parts)
RECURSIVE Join(_, _)
Join(parts, sep) ==
    IF Len(parts) = 0 THEN << >>
    ELSE IF Len(parts) = 1 THEN parts[1]
    ELSE parts[1] \o sep \o Join(Tail(parts), sep)

NL == << 10 >>

(***************************************************************************)
(* cleaner.py: TextCleaner                                                 *)
(***************************************************************************)
\* re.sub(r'(G+)-\s+(G+)', r'\1\2', s) when greedy and ~nl;
\* re.sub(r'(G+)-\n\s*(G+)', ...) when nl; one character per group when ~greedy.
\* HyphEnd1 is the position of the hyphen of a match that starts at i (0 when
\* none does) and HyphStart2 the position where the second group starts.
HyphEnd1(G, greedy, s, i) ==
    IF greedy THEN SkipWhile(G, s, i)
    ELSE IF InClass(G, s[i]) THEN i + 1 ELSE i

HyphStart2(G, greedy, s, i) ==
    SkipWhile("IsSpace", s, HyphEnd1(G, greedy, s, i) + 1)

\* a match that starts at i, with its hyphen at j and its second group at k
HyphMatchesAt(G, nl, s, i, j, k) ==
    /\ j > i
    /\ j <= Len(s)
    /\ s[j] = 45
    /\ IF nl THEN j + 1 <= Len(s) /\ s[j + 1] = 10 ELSE k > j + 1
    /\ k <= Len(s)
    /\ InClass(G, s[k])

HyphMatches(G, greedy, nl, s, i) ==
    HyphMatchesAt(G, nl, s, i, HyphEnd1(G, greedy, s, i), HyphStart2(G, greedy, s, i))

\* the position after the second group, which starts at k
HyphEnd2(G, greedy, s, k) ==
    IF greedy THEN SkipWhile(G, s, k) ELSE k + 1

\* The scan takes the leftmost match at or after i and restarts after it, as
\* re.sub does: HyphSub is the scan, HyphReplace the replacement of the match
\* at p by its two groups, HyphGroup2 the second group, which starts at k,
\* and the rest of the scan.
RECURSIVE HyphSub(_, _, _, _, _)
HyphGroup2(G, greedy, nl, s, k) ==
    SubSeq(s, k, HyphEnd2(G, greedy, s, k) - 1)
      \o HyphSub(G, greedy, nl, s, HyphEnd2(G, greedy, s, k))

HyphReplace(G, greedy, nl, s, i, p) ==
    SubSeq(s, i, HyphEnd1(G, greedy, s, p) - 1)
      \o HyphGroup2(G, greedy, nl, s, HyphStart2(G, greedy, s, p))

HyphSub(G, greedy, nl, s, i) ==
    IF {p \in i..Len(s) : HyphMatches(G, greedy, nl, s, p)} = {} THEN From(s, i)
    ELSE HyphReplace(G, greedy, nl, s, i,
                     Min({p \in i..Len(s) : HyphMatches(G, greedy, nl, s, p)}))

fix_hyphenation(text) ==
    HyphSub("IsLetter", FALSE, TRUE,
        HyphSub("IsLetter", FALSE, FALSE,
            HyphSub("IsWord", TRUE, TRUE,
                HyphSub("IsWord", TRUE, FALSE, text, 1), 1), 1), 1)

\* a run that started at p and ended before d, where one of the closers stands
RunEnd(line, p, d, closers) ==
    IF d > p /\ d <= Len(line) /\ line[d] \in closers THEN d + 1 ELSE 0

\* the position after the marker of that kind that starts at p, or 0:
\*   bullet  [•·▪▫]
\*   dash    [-*]
\*   number  \d+[\.\)\-]
\*   roman   [IVX]+[\.\)]
\*   letter  [а-яёa-z][\.\)\-]
MarkerEnd(marker, line, p) ==
    CASE marker = "bullet" ->
           IF p <= Len(line) /\ line[p] \in {8226, 183, 9642, 9643} THEN p + 1 ELSE 0
      [] marker = "dash" ->
           IF p <= Len(line) /\ line[p] \in {45, 42} THEN p + 1 ELSE 0
      [] marker = "number" ->
           RunEnd(line, p, SkipWhile("IsDigit", line, p), {46, 41, 45})
      [] marker = "roman" ->
           RunEnd(line, p, SkipWhile("IsRoman", line, p), {46, 41})
      [] marker = "letter" ->
           IF /\ p + 1 <= Len(line)
              /\ IsLetter(line[p])
              /\ line[p + 1] \in {46, 41, 45}
           THEN p + 2 ELSE 0

\* the substitution with the whitespace after the marker optional
StripAfterAlways(line, q) ==
    IF q > 0 THEN From(line, SkipWhile("IsSpace", line, q)) ELSE line

\* re.sub(r'^[\s\t]*<marker>[\s\t]+', '', line): the marker ends at q (0 when
\* there is none)
StripAfter(line, q) ==
    IF q > 0 /\ SkipWhile("IsSpace", line, q) > q
    THEN From(line, SkipWhile("IsSpace", line, q))
    ELSE line

StripMarker(line, marker) ==
    StripAfter(line, MarkerEnd(marker, line, SkipWhile("IsSpace", line, 1)))

\* re.sub(r'^[ \t]+', '', line)
StripIndent(line) == From(line, SkipWhile("IsTabOrBlank", line, 1))

\* the body of the loop of remove_list_markers
remove_list_markers_line(line) ==
    StripIndent(
        StripMarker(
            StripMarker(
                StripMarker(
                    StripMarker(StripMarker(line, "bullet"), "dash"),
                    "number"),
                "roman"),
            "letter"))

\* cleaned_lines of remove_list_markers
RemoveMarkersOf(lines) ==
    [i \in 1..Len(lines) |-> remove_list_markers_line(lines[i])]

remove_list_markers(text) == Join(RemoveMarkersOf(SplitLines(text)), NL)

\* t is \d+ in full
AllDigits(t) == Len(t) > 0 /\ \A i \in 1..Len(t) : IsDigit(t[i])

\* r'^\s*\d+\s*/\s*\d+\s*$' against the stripped line t: the first number ends
\* before d
PageNumberOf(t, d) ==
    /\ d > 1
    /\ SkipWhile("IsSpace", t, d) <= Len(t)
    /\ t[SkipWhile("IsSpace", t, d)] = 47
    /\ AllDigits(From(t, SkipWhile("IsSpace", t, SkipWhile("IsSpace", t, d) + 1)))

\* a stripped line that one of self.page_number_patterns matches
\* (re.IGNORECASE):
\*   r'^\s*\d+\s*$', r'^\s*стр\.?\s*\d+\s*$', r'^\s*page\s+\d+\s*$',
\*   r'^\s*\d+\s*/\s*\d+\s*$'
PageNumberLine(t) ==
    \/ AllDigits(t)
    \/ /\ MatchAtLower(t, 1, << 1089, 1090, 1088 >>)
       /\ AllDigits(From(t, SkipWhile("IsSpace", t,
                                      IF MatchAt(t, 4, << 46 >>) THEN 5 ELSE 4)))
    \/ /\ MatchAtLower(t, 1, << 112, 97, 103, 101 >>)
       /\ SkipWhile("IsSpace", t, 5) > 5
       /\ AllDigits(From(t, SkipWhile("IsSpace", t, 5)))
    \/ PageNumberOf(t, SkipWhile("IsDigit", t, 1))

\* self.page_number_patterns, matched against one line
page_number_patterns(line) == PageNumberLine(Strip(line))

remove_page_numbers(text) ==
    Join(SelectSeq(SplitLines(text), LAMBDA l : ~page_number_patterns(l)), NL)

\* the words of the decorative element, which the pattern separates by \s+
DecorWords ==
    << << 115, 107, 105, 110 >>, << 115, 107, 105, 110 >>,
       << 101, 115, 115 >>, << 101, 115, 115 >>,
       << 101, 110, 116 >>, << 101, 110, 116 >>,
       << 105, 97, 108, 115 >>, << 105, 97, 108, 115 >> >>

\* the position after words[1]\s+words[2]\s+... matched at i (case ignored), or 0
RECURSIVE MatchWordsAt(_, _, _)
\* the first word ended before e
MatchWordsFrom(s, e, words) ==
    IF Len(words) = 1 THEN e
    ELSE IF SkipWhile("IsSpace", s, e) > e
         THEN MatchWordsAt(s, SkipWhile("IsSpace", s, e), Tail(words))
    ELSE 0

MatchWordsAt(s, i, words) ==
    IF ~MatchAtLower(s, i, words[1]) THEN 0
    ELSE MatchWordsFrom(s, i + Len(words[1]), words)

\* re.sub(decorative pattern, '', s): DecorSub is the scan from i, DecorCut
\* the removal of the match that starts at p and ends before e; with trail the
\* pattern ends in \s*
RECURSIVE DecorSub(_, _, _)
DecorCut(s, i, p, e, trail) ==
    SubSeq(s, i, p - 1)
      \o DecorSub(s, IF trail THEN SkipWhile("IsSpace", s, e) ELSE e, trail)

DecorFirst(s, i, p, trail) ==
    DecorCut(s, i, p, MatchWordsAt(s, p, DecorWords), trail)

DecorSub(s, i, trail) ==
    IF {p \in i..Len(s) : MatchWordsAt(s, p, DecorWords) > 0} = {} THEN From(s, i)
    ELSE DecorFirst(s, i, Min({p \in i..Len(s) : MatchWordsAt(s, p, DecorWords) > 0}),
                    trail)

\* the length under which a line counts as a subheading
SubheadingLen == 50

\* the last character of r is one of the marks
EndsWith(r, marks) == Len(r) > 0 /\ r[Len(r)] \in marks

\* re.search(r'[.!?]\s*$', s)
EndsSentence(s) == EndsWith(RStrip(s), {46, 33, 63})

\* re.search(r'[;:]\s*$', s)
EndsSection(s) == EndsWith(RStrip(s), {59, 58})

\* s[0].isupper() and not s[0].isdigit()
StartsUpper(s) == IsUpper(s[1]) /\ ~IsDigit(s[1])

\* re.search(r'^[А-ЯЁA-Z]', s[:3])
StartsCapital(s) ==
    Len(s) > 0 /\ ((s[1] >= 1040 /\ s[1] <= 1071) \/ s[1] = 1025 \/ (s[1] >= 65 /\ s[1] <= 90))

\* the inner while loop of merge_lines_in_sentences: keeps joining lines[i..]
\* to current; the record holds the joined line and the next unread position.
\* JoinLine is one iteration, with next_line the stripped lines[i].
RECURSIVE JoinMore(_, _, _)
JoinLine(lines, i, current, next_line) ==
    IF Len(next_line) = 0 THEN [current |-> current, i |-> i]
    ELSE IF EndsSentence(next_line)
         THEN [current |-> current \o << 32 >> \o next_line, i |-> i + 1]
    ELSE IF StartsUpper(next_line) /\ Len(next_line) < SubheadingLen
         THEN [current |-> current, i |-> i]
    ELSE JoinMore(lines, i + 1, current \o << 32 >> \o next_line)

JoinMore(lines, i, current) ==
    IF i > Len(lines) THEN [current |-> current, i |-> i]
    ELSE JoinLine(lines, i, current, Strip(lines[i]))

\* the merge with the next line left out
JoinFirstLost(current, next_line) == current

\* current and next_line put together when the merge starts
JoinFirst(current, next_line) ==
    IF current[Len(current)] # 32 /\ next_line[1] # 32
    THEN current \o << 32 >> \o next_line
    ELSE Strip(RStrip(current) \o << 32 >> \o LStrip(next_line))

\* the outer while loop of merge_lines_in_sentences, from position i:
\* MergeLine is one iteration, with current the stripped lines[i] and
\* next_line the stripped lines[i + 1]; MergeJoined appends the line the inner
\* loop built.
RECURSIVE MergeFrom(_, _)
MergeJoined(lines, r) == << r.current >> \o MergeFrom(lines, r.i)

MergeLine(lines, i, current, next_line) ==
    IF Len(current) = 0 THEN << << >> >> \o MergeFrom(lines, i + 1)
    ELSE IF EndsSentence(current)
         THEN << current >> \o MergeFrom(lines, i + 1)
    ELSE IF ~(i + 1 <= Len(lines)) THEN << current >> \o MergeFrom(lines, i + 1)
    ELSE IF Len(next_line) = 0
         THEN << current >> \o MergeFrom(lines, i + 1)
    ELSE IF StartsUpper(next_line) /\ EndsSection(current)
         THEN << current >> \o MergeFrom(lines, i + 1)
    ELSE IF /\ StartsUpper(next_line)
            /\ current[Len(current)] # 44
            /\ ~StartsCapital(Prefix(next_line, 3))
            /\ Len(current) < SubheadingLen
         THEN << current >> \o MergeFrom(lines, i + 1)
    ELSE MergeJoined(lines, JoinMore(lines, i + 2, JoinFirst(current, next_line)))

MergeFrom(lines, i) ==
    IF i > Len(lines) THEN << >>
    ELSE MergeLine(lines, i, Strip(lines[i]), Strip(lines[i + 1]))

merge_lines_in_sentences(text) == Join(MergeFrom(SplitLines(text), 1), NL)

\* the rule pipeline that clean_text applies to one page's full_text
clean_full_text(text) ==
    merge_lines_in_sentences(
        DecorSub(
            DecorSub(
                remove_page_numbers(remove_list_markers(fix_hyphenation(text))),
                1, FALSE),
            1, TRUE))

(***************************************************************************)
(* qc.py: QualityController                                                *)
(***************************************************************************)
\* the keyword of article_pattern, lowercased for re.IGNORECASE
ArticleWord == << 1072, 1088, 1090, 1080, 1082, 1091, 1083 >>

\* r'Артикул\s+(\d+)' matched at p: the position after the match, or 0.  The
\* keyword ends before e and the whitespace before d.
ArticleEndAt(s, p, e, d) ==
    IF MatchAtLower(s, p, ArticleWord) /\ d > e /\ SkipWhile("IsDigit", s, d) > d
    THEN SkipWhile("IsDigit", s, d) ELSE 0

ArticleEnd(s, p) ==
    ArticleEndAt(s, p, p + Len(ArticleWord),
                 SkipWhile("IsSpace", s, p + Len(ArticleWord)))

\* group(1) of every match of article_pattern
Articles(s) ==
    { SubSeq(s, SkipWhile("IsSpace", s, p + Len(ArticleWord)), ArticleEnd(s, p) - 1) :
        p \in {q \in 1..Len(s) : ArticleEnd(s, q) > 0} }

\* product_title_pattern r'([А-ЯЁа-яё\s\-]+)\s*/\s*([A-Za-z\s\-]+)' matched at
\* p: the position after the match, or 0.  Both groups are greedy runs, and the
\* slash is in neither class, so the first run must end at the slash.
ProductTitleEndAt(s, p, q) ==
    IF q > p /\ q <= Len(s) /\ s[q] = 47 /\ SkipWhile("IsTitleEn", s, q + 1) > q + 1
    THEN SkipWhile("IsTitleEn", s, q + 1) ELSE 0

ProductTitleEnd(s, p) == ProductTitleEndAt(s, p, SkipWhile("IsTitleRu", s, p))

\* ph_pattern r'\bpH\s*[=:]?\s*[\d.]+' (re.IGNORECASE) matched at p: the
\* number starts at c, after the optional sign and the whitespace around it
PhEndAt(s, p, c) ==
    IF /\ MatchAtLower(s, p, << 112, 104 >>)
       /\ (p = 1 \/ ~IsWord(s[p - 1]))
       /\ SkipWhile("IsDigitOrDot", s, c) > c
    THEN SkipWhile("IsDigitOrDot", s, c) ELSE 0

PhEnd(s, p) ==
    PhEndAt(s, p,
            SkipWhile("IsSpace", s,
                      IF /\ SkipWhile("IsSpace", s, p + 2) <= Len(s)
                         /\ s[SkipWhile("IsSpace", s, p + 2)] \in {61, 58}
                      THEN SkipWhile("IsSpace", s, p + 2) + 1
                      ELSE SkipWhile("IsSpace", s, p + 2)))

\* the position after the match of the named pattern at p, or 0
PatternEnd(pattern, s, p) ==
    IF pattern = "product_title" THEN ProductTitleEnd(s, p) ELSE PhEnd(s, p)

\* finditer: group(0).strip() of the matches of a pattern from position i on,
\* leftmost first and not overlapping; FindFirst is the match at p with the
\* matches after it
RECURSIVE FindIter(_, _, _)
FindFirst(pattern, s, p) ==
    {Strip(SubSeq(s, p, PatternEnd(pattern, s, p) - 1))}
      \cup FindIter(pattern, s, PatternEnd(pattern, s, p))

FindIter(pattern, s, i) ==
    IF {p \in i..Len(s) : PatternEnd(pattern, s, p) > 0} = {} THEN {}
    ELSE FindFirst(pattern, s, Min({p \in i..Len(s) : PatternEnd(pattern, s, p) > 0}))

\* the words of the five subheading_patterns, lowercased; \s+ separates them
SubheadingWords ==
    << << << 1076, 1083, 1103 >> >>,
       << << 1086, 1089, 1085, 1086, 1074, 1085, 1099, 1077 >>,
          << 1072, 1082, 1090, 1080, 1074, 1085, 1099, 1077 >>,
          << 1080, 1085, 1075, 1088, 1077, 1076, 1080, 1077, 1085, 1090, 1099 >> >>,
       << << 1084, 1077, 1093, 1072, 1085, 1080, 1079, 1084 >>,
          << 1076, 1077, 1081, 1089, 1090, 1074, 1080, 1103 >> >>,
       << << 1080, 1089, 1087, 1086, 1083, 1100, 1079, 1086, 1074, 1072, 1085, 1080, 1077 >> >>,
       << << 1086, 1089, 1085, 1086, 1074, 1085, 1099, 1077 >>,
          << 1087, 1088, 1077, 1080, 1084, 1091, 1097, 1077, 1089, 1090, 1074, 1072 >> >> >>

\* subheading pattern n matched at p, where ^ (re.MULTILINE) needs a line
\* start; the first pattern, r'^Для\s+', also needs whitespace after the word.
\* The words end before e.
SubheadingEndAt(s, p, n, e) ==
    IF /\ (p = 1 \/ s[p - 1] = 10)
       /\ e > 0
       /\ (n = 1 => e <= Len(s) /\ IsSpace(s[e]))
    THEN e ELSE 0

SubheadingEnd(s, p, n) ==
    SubheadingEndAt(s, p, n, MatchWordsAt(s, p, SubheadingWords[n]))

Subheadings(s) ==
    { SubSeq(s, pn[1], SubheadingEnd(s, pn[1], pn[2]) - 1) :
        pn \in {x \in (1..Len(s)) \X (1..Len(SubheadingWords)) :
                   SubheadingEnd(s, x[1], x[2]) > 0} }

\* extract_anchors_from_cleaned
extract_anchors_from_cleaned(text) ==
    [ articles |-> Articles(text),
      product_titles |-> FindIter("product_title", text, 1),
      ph_values |-> FindIter("ph", text, 1),
      subheadings |-> Subheadings(text) ]

\* extract_anchors_from_raw: the same patterns over the page texts joined by
\* newlines, in the order of the page map (which extract() fills by ascending
\* page number)
extract_anchors_from_raw(texts) ==
    extract_anchors_from_cleaned(
        Join([k \in 1..Len(Sorted(DOMAIN texts)) |-> texts[Sorted(DOMAIN texts)[k]]],
             NL))

\* a difference taken the other way round: the anchors of the cleaned text
\* that the raw text does not have
find_extra_anchors(raw_anchors, cleaned_anchors) ==
    [ t \in {u \in {"articles", "product_titles", "ph_values", "subheadings"} :
                cleaned_anchors[u] \ raw_anchors[u] # {}} |->
        cleaned_anchors[t] \ raw_anchors[t] ]

\* find_missing_anchors: the anchor types with a non-empty difference, each
\* with the anchors of the raw text that the cleaned text does not have
find_missing_anchors(raw_anchors, cleaned_anchors) ==
    [ t \in {u \in {"articles", "product_titles", "ph_values", "subheadings"} :
                raw_anchors[u] \ cleaned_anchors[u] # {}} |->
        raw_anchors[t] \ cleaned_anchors[t] ]

(***************************************************************************)
(* assembler.py: TextAssembler                                             *)
(***************************************************************************)
\* title_pattern
\*   r'([А-ЯЁа-яё][А-ЯЁа-яё\s\-\.,]+?)\s*/\s*([a-zA-Z][a-zA-Z\s\-\.,]+?)'
\* matched at p.  slash: the only slash group 1 can reach; both groups are lazy:
\* group 1 stops as soon as only whitespace is left before the slash, and
\* group 2, which ends the pattern, stops after its second character.
TitleSlash(s, p) == SkipWhile("IsRuTail", s, p + 1)

TitleEnStart(s, p) == SkipWhile("IsSpace", s, TitleSlash(s, p) + 1)

\* a match at p with its slash at q and its English group at a
TitleMatchesAt(s, p, q, a) ==
    /\ IsCyr(s[p])
    /\ q >= p + 2
    /\ q <= Len(s)
    /\ s[q] = 47
    /\ a + 1 <= Len(s)
    /\ IsLatin(s[a])
    /\ IsEnTail(s[a + 1])

TitleMatches(s, p) == TitleMatchesAt(s, p, TitleSlash(s, p), TitleEnStart(s, p))

\* match.group(1).strip() and match.group(2).strip() of the match at p
TitleGroup1(s, p) ==
    Strip(SubSeq(s, p, Max({SkipBackSpace(s, TitleSlash(s, p) - 1) + 1, p + 2}) - 1))

TitleGroup2(s, p) ==
    Strip(SubSeq(s, TitleEnStart(s, p), TitleEnStart(s, p) + 1))

\* the start of the first match of title_pattern at or after i, or 0
TitleSearch(s, i) == MinOrZero({p \in i..Len(s) : TitleMatches(s, p)})

\* title_pattern.finditer(s): the starts of the matches, in text order;
\* TitleFindNext has the first of them in p
RECURSIVE TitleFindIter(_, _)
TitleFindNext(s, p) ==
    IF p = 0 THEN << >>
    ELSE << p >> \o TitleFindIter(s, TitleEnStart(s, p) + 2)

TitleFindIter(s, i) == TitleFindNext(s, TitleSearch(s, i))

\* the number of leading pages that _build_title_lookup scans
LookupPages == 5

\* an update that also replaces the value on equal lengths
LookupPutAtLast(lookup, i, key, ru, en) ==
    IF i = 0 THEN Append(lookup, [key |-> key, ru |-> ru, en |-> en])
    ELSE IF Len(ru) >= Len(lookup[i].ru)
         THEN [lookup EXCEPT ![i] = [key |-> key, ru |-> ru, en |-> en]]
         ELSE lookup

\* the body of the inner loop of _build_title_lookup: title_lookup is a dict,
\* here the sequence of its items in insertion order; a replaced value keeps
\* the place of its key.  LookupPutAt has the place of the key in i, 0 when the
\* key is new.
LookupPutAt(lookup, i, key, ru, en) ==
    IF i = 0 THEN Append(lookup, [key |-> key, ru |-> ru, en |-> en])
    ELSE IF Len(ru) > Len(lookup[i].ru)
         THEN [lookup EXCEPT ![i] = [key |-> key, ru |-> ru, en |-> en]]
         ELSE lookup

LookupPut(lookup, key, ru, en) ==
    LookupPutAt(lookup, MinOrZero({i \in 1..Len(lookup) : lookup[i].key = key}),
                key, ru, en)

RECURSIVE LookupScanText(_, _, _, _)
LookupScanText(lookup, text, starts, n) ==
    IF n > Len(starts) THEN lookup
    ELSE LookupScanText(
             LookupPut(lookup, Lower(TitleGroup2(text, starts[n])),
                       TitleGroup1(text, starts[n]), TitleGroup2(text, starts[n])),
             text, starts, n + 1)

RECURSIVE LookupScanPages(_, _, _, _)
LookupScanPages(lookup, pages, order, n) ==
    IF n > Len(order) \/ n > LookupPages THEN lookup
    ELSE LookupScanPages(
             LookupScanText(lookup, pages[order[n]].full_text,
                            TitleFindIter(pages[order[n]].full_text, 1), 1),
             pages, order, n + 1)

_build_title_lookup(cleaned) ==
    LookupScanPages(<< >>, cleaned, Sorted(DOMAIN cleaned), 1)

\* the 1-based index of the first line with an article code, which
\* re.search(r'Артикул\s+\d+', line, re.IGNORECASE) finds; 0 when there is
\* none (article_line_idx is this minus one, or None)
ArticleLine(lines) ==
    MinOrZero({i \in 1..Len(lines) :
                 \E p \in 1..Len(lines[i]) : ArticleEnd(lines[i], p) > 0})

HasCyrillic(line) == \E i \in 1..Len(line) : IsCyr(line[i])

\* re.search(r'^[a-zA-Z]', line) and not re.search(r'[А-ЯЁа-яё]', line)
LatinOnly(line) == Len(line) > 0 /\ IsLatin(line[1]) /\ ~HasCyrillic(line)

\* re.search(r'артикул|article|мл|ml|home|professional', line, re.IGNORECASE)
EnglishBoilerplate(line) ==
    \E w \in { ArticleWord,
               << 97, 114, 116, 105, 99, 108, 101 >>,
               << 1084, 1083 >>,
               << 109, 108 >>,
               << 104, 111, 109, 101 >>,
               << 112, 114, 111, 102, 101, 115, 115, 105, 111, 110, 97, 108 >> } :
        Contains(Lower(line), w)

\* re.search(r'артикул|мл|домашняя|профессиональный|липидный|уровень|увлажнения',
\*           line, re.IGNORECASE)
RussianBoilerplate(line) ==
    \E w \in { ArticleWord,
               << 1084, 1083 >>,
               << 1076, 1086, 1084, 1072, 1096, 1085, 1103, 1103 >>,
               << 1087, 1088, 1086, 1092, 1077, 1089, 1089, 1080, 1086, 1085, 1072,
                  1083, 1100, 1085, 1099, 1081 >>,
               << 1083, 1080, 1087, 1080, 1076, 1085, 1099, 1081 >>,
               << 1091, 1088, 1086, 1074, 1077, 1085, 1100 >>,
               << 1091, 1074, 1083, 1072, 1078, 1085, 1077, 1085, 1080, 1103 >> } :
        Contains(Lower(line), w)

\* how many lines above the article line each search looks at, and the
\* lengths an English title line may have
EnglishLookback == 5
RussianLookback == 8
MinEnglishLen == 3
MaxEnglishLen == 150

\* a stripped line that can be the English title
EnglishCandidate(line) ==
    /\ LatinOnly(line)
    /\ ~EnglishBoilerplate(line)
    /\ Len(line) >= MinEnglishLen
    /\ Len(line) <= MaxEnglishLen

\* the lines before the article line (the idx-th) that can be the English
\* title; "if article_line_idx:" is false for None and for index 0
EnglishCandidates(lines, idx) ==
    IF idx < 2 THEN {}
    ELSE { i \in Max({idx - EnglishLookback, 1})..(idx - 1) :
             EnglishCandidate(Strip(lines[i])) }

\* the candidate nearest to the article line, else group 2 of the first match
\* of title_pattern
EnglishFrom(text, lines, found) ==
    IF found # {} THEN Strip(lines[Max(found)])
    ELSE IF TitleSearch(text, 1) > 0 THEN TitleGroup2(text, TitleSearch(text, 1))
    ELSE None

_find_english_title_in_text(text) ==
    EnglishFrom(text, SplitLines(text),
                EnglishCandidates(SplitLines(text), ArticleLine(SplitLines(text))))

\* the loop of _find_russian_title_before_article, walking up from line i to
\* line lo; the lines come out in text order.  RussianPart is one iteration,
\* with line the stripped lines[i].
RECURSIVE RussianParts(_, _, _)
RussianPart(lines, i, lo, line) ==
    IF Len(line) = 0 \/ RussianBoilerplate(line)
    THEN RussianParts(lines, i - 1, lo)
    ELSE IF HasCyrillic(line) /\ Len(line) >= 2
         THEN Append(RussianParts(lines, i - 1, lo), line)
    ELSE IF LatinOnly(line) THEN << >>
    ELSE RussianParts(lines, i - 1, lo)

RussianParts(lines, i, lo) ==
    IF i < lo THEN << >>
    ELSE RussianPart(lines, i, lo, Strip(lines[i]))

\* the Russian title of the russian_parts found above the article line,
\* which is the idx-th: ' '.join(russian_parts), or None
RussianJoined(idx, russian_parts) ==
    IF idx = 0 \/ Len(russian_parts) = 0 THEN None
    ELSE Join(russian_parts, << 32 >>)

_find_russian_title_before_article(text) ==
    RussianJoined(ArticleLine(SplitLines(text)),
                  RussianParts(SplitLines(text), ArticleLine(SplitLines(text)) - 1,
                               Max({ArticleLine(SplitLines(text)) - RussianLookback, 1})))

\* Python truthiness of an Optional[str]
Truthy(x) == x # None /\ Len(x) > 0

\* roi_russian and roi_english of _resolve_full_title
RoiRussian(title_from_roi) ==
    IF TitleSearch(title_from_roi, 1) > 0
    THEN TitleGroup1(title_from_roi, TitleSearch(title_from_roi, 1))
    ELSE Strip(title_from_roi)

RoiEnglish(title_from_roi) ==
    IF TitleSearch(title_from_roi, 1) > 0
    THEN TitleGroup2(title_from_roi, TitleSearch(title_from_roi, 1))
    ELSE None

\* "if not x and y: x = y"
OrElse(x, y) == IF ~Truthy(x) /\ Truthy(y) THEN y ELSE x

\* english_title of _resolve_full_title: the text's candidate, else the ROI's
EnglishTitle(title_from_roi, page_text) ==
    OrElse(_find_english_title_in_text(page_text), RoiEnglish(title_from_roi))

\* the lookup value of "no entry"
NoEntry == [key |-> None, ru |-> None, en |-> None]

\* the three partial-match variants of the fuzzy loop
FuzzyMatches(lookup_en_lower, english_lower) ==
    \/ StartsWith(lookup_en_lower, english_lower)
    \/ Contains(lookup_en_lower, english_lower)
    \/ /\ Len(english_lower) >= 2
       /\ Len(english_lower) <= 4
       /\ StartsWith(lookup_en_lower, english_lower)

\* a fuzzy loop that keeps the first matching item instead of the longest
RECURSIVE FuzzyScanFirst(_, _, _, _)
FuzzyScanFirst(lookup, english_lower, n, best_match) ==
    IF n > Len(lookup) THEN best_match
    ELSE FuzzyScanFirst(lookup, english_lower, n + 1,
             IF FuzzyMatches(lookup[n].key, english_lower) /\ best_match = NoEntry
             THEN lookup[n] ELSE best_match)

\* the fuzzy loop over title_lookup.items(): best_match after item n-1
RECURSIVE FuzzyScan(_, _, _, _)
FuzzyScan(lookup, english_lower, n, best_match) ==
    IF n > Len(lookup) THEN best_match
    ELSE FuzzyScan(lookup, english_lower, n + 1,
             IF /\ FuzzyMatches(lookup[n].key, english_lower)
                /\ Len(lookup[n].key) >
                     (IF best_match = NoEntry THEN 0 ELSE Len(best_match.key))
             THEN lookup[n] ELSE best_match)

\* lookup_value of _resolve_full_title: the exact entry, else the fuzzy one
LookupValue(lookup, english_lower) ==
    IF {i \in 1..Len(lookup) : lookup[i].key = english_lower} # {}
    THEN lookup[Min({i \in 1..Len(lookup) : lookup[i].key = english_lower})]
    ELSE FuzzyScan(lookup, english_lower, 1, NoEntry)

\* full_english: the entry's English title when an entry was found
FullEnglish(lookup_value, english_title) ==
    IF lookup_value # NoEntry THEN lookup_value.en ELSE english_title

\* "if not full_russian: full_russian = self._find_russian_title_before_article(...)"
RussianFromText(full_russian, page_text) ==
    IF Truthy(full_russian) THEN full_russian
    ELSE _find_russian_title_before_article(page_text)

\* the text before the article code first, the entry second
RussianTextFirst(from_text, lookup_value) ==
    IF Truthy(from_text) THEN from_text
    ELSE IF lookup_value # NoEntry THEN lookup_value.ru ELSE None

\* full_russian that asks the text before the article code first and the
\* entry second
FullRussianTextFirst(lookup_value, title_from_roi, page_text) ==
    OrElse(RussianTextFirst(_find_russian_title_before_article(page_text),
                            lookup_value),
           RoiRussian(title_from_roi))

\* full_russian: the entry's Russian title, else the lines before the article
\* code, else the Russian part of the ROI title
FullRussian(lookup_value, title_from_roi, page_text) ==
    OrElse(RussianFromText(IF lookup_value # NoEntry THEN lookup_value.ru ELSE None,
                           page_text),
           RoiRussian(title_from_roi))

\* the return statements of _resolve_full_title
FormatTitle(full_russian, full_english, english_title, title_from_roi) ==
    IF ~Truthy(english_title) THEN title_from_roi
    ELSE IF Truthy(full_russian) /\ Truthy(full_english)
         THEN full_russian \o << 32, 47, 32 >> \o full_english
    ELSE IF Truthy(full_russian) THEN full_russian
    ELSE IF Truthy(full_english) THEN full_english
    ELSE title_from_roi

\* _resolve_full_title from the point where lookup_value is known
ResolveEntry(lookup_value, title_from_roi, page_text, english_title) ==
    FormatTitle(FullRussian(lookup_value, title_from_roi, page_text),
                FullEnglish(lookup_value, english_title),
                english_title, title_from_roi)

\* _resolve_full_title from the point where english_title is known
ResolveFrom(lookup, title_from_roi, page_text, english_title) ==
    ResolveEntry(LookupValue(lookup, Lower(english_title)),
                 title_from_roi, page_text, english_title)

_resolve_full_title(lookup, title_from_roi, page_text) ==
    ResolveFrom(lookup, title_from_roi, page_text,
                EnglishTitle(title_from_roi, page_text))

\* not line.strip()
IsBlank(line) == Len(Strip(line)) = 0

\* '\n'.join(cleaned_lines), where a kept blank line is the empty line
JoinKept(lines, order) ==
    Join([k \in 1..Len(order) |->
             IF IsBlank(lines[order[k]]) THEN << >> ELSE lines[order[k]]],
         NL)

\* solid: the lines with text.  clean_block keeps the lines from the first
\* line with text to the last, and of a run of blank lines the first.
CleanLines(lines, solid) ==
    IF solid = {} THEN << >>
    ELSE JoinKept(lines,
                  Sorted({i \in 1..Len(lines) :
                            /\ i >= Min(solid)
                            /\ i <= Max(solid)
                            /\ (IsBlank(lines[i]) => ~IsBlank(lines[i - 1]))}))

\* a clean_block that keeps the first line only
clean_block_head(block_text) == SplitLines(block_text)[1]

\* clean_block: runs of blank lines become one empty line, and the blank
\* lines at both ends go
clean_block(block_text) ==
    CleanLines(SplitLines(block_text),
               {i \in 1..Len(SplitLines(block_text)) :
                  ~IsBlank(SplitLines(block_text)[i])})

\* the pages whose text is not blank
SolidPages(page_indices, cleaned) ==
    SelectSeq(page_indices, LAMBDA n : ~IsBlank(cleaned[n].full_text))

TextsOf(page_indices, cleaned) ==
    [k \in 1..Len(page_indices) |-> cleaned[page_indices[k]].full_text]

\* PageTexts that forgets every page after the first
PageTextsFirstOnly(page_indices, cleaned) ==
    TextsOf(Prefix(SolidPages(page_indices, cleaned), 1), cleaned)

\* page_texts of _create_product_block and _create_section_block: the
\* full_text of the pages whose text is not blank
PageTexts(page_indices, cleaned) ==
    TextsOf(SolidPages(page_indices, cleaned), cleaned)

\* first_page_composition: the composition of the first page with text
FirstPageComposition(page_indices, cleaned) ==
    IF Len(SolidPages(page_indices, cleaned)) = 0 THEN << >>
    ELSE Strip(cleaned[SolidPages(page_indices, cleaned)[1]].composition)

\* block_header of _create_product_block
BlockHeader(full_title, first_page_composition) ==
    IF Len(first_page_composition) > 0
    THEN full_title \o NL \o first_page_composition
    ELSE full_title

\* the return statements of _create_product_block
ProductBlock(block_header, block_text) ==
    IF ~IsBlank(block_text)
    THEN block_header \o << 10, 10 >> \o block_text
    ELSE block_header

\* _create_product_block from the point where combined_text is known
ProductBlockOf(lookup, title, page_indices, cleaned, combined_text) ==
    ProductBlock(BlockHeader(_resolve_full_title(lookup, title, combined_text),
                             FirstPageComposition(page_indices, cleaned)),
                 clean_block(combined_text))

_create_product_block(lookup, title, page_indices, cleaned) ==
    ProductBlockOf(lookup, title, page_indices, cleaned,
                   Join(PageTexts(page_indices, cleaned), << 10, 10 >>))

_create_section_block(page_indices, cleaned) ==
    clean_block(Join(PageTexts(page_indices, cleaned), << 10, 10 >>))

(***************************************************************************)
(* The words the input texts are made of                                   *)
(***************************************************************************)
\* the words: "Krem", "dlya", "litsa", "Tonik", "Sostav", "krema", "Dlya",
\* "Artikul"; "Cream", "Tonic", "Aqua", "pH 5.5", "111", "222"; " ", " / ";
\* "Molochko", "Moloko", "Molochnyi", "Ochischayuschee"; "Cleansing Milk",
\* "Milk", "Milky", "Cleans", "Ilk"
Words ==
    [ Krem |-> << 1050, 1088, 1077, 1084 >>,
      dlya |-> << 1076, 1083, 1103 >>,
      litsa |-> << 1083, 1080, 1094, 1072 >>,
      Tonik |-> << 1058, 1086, 1085, 1080, 1082 >>,
      Sostav |-> << 1057, 1086, 1089, 1090, 1072, 1074 >>,
      krema |-> << 1082, 1088, 1077, 1084, 1072 >>,
      Dlya |-> << 1044, 1083, 1103 >>,
      Artikul |-> << 1040, 1088, 1090, 1080, 1082, 1091, 1083 >>,
      Cream |-> << 67, 114, 101, 97, 109 >>,
      Tonic |-> << 84, 111, 110, 105, 99 >>,
      Aqua |-> << 65, 113, 117, 97 >>,
      Ph55 |-> << 112, 72, 32, 53, 46, 53 >>,
      N111 |-> << 49, 49, 49 >>,
      N222 |-> << 50, 50, 50 >>,
      SP |-> << 32 >>,
      Slash |-> << 32, 47, 32 >>,
      Molochko |-> << 1052, 1086, 1083, 1086, 1095, 1082, 1086 >>,
      Moloko |-> << 1052, 1086, 1083, 1086, 1082, 1086 >>,
      Molochnyi |-> << 1052, 1086, 1083, 1086, 1095, 1085, 1099, 1081 >>,
      Ochischayuschee |-> << 1054, 1095, 1080, 1097, 1072, 1102, 1097, 1077, 1077 >>,
      CleansingMilk |-> << 67, 108, 101, 97, 110, 115, 105, 110, 103, 32, 77, 105, 108, 107 >>,
      Milk |-> << 77, 105, 108, 107 >>,
      Milky |-> << 77, 105, 108, 107, 121 >>,
      Cleans |-> << 67, 108, 101, 97, 110, 115 >>,
      Ilk |-> << 73, 108, 107 >> ]

\* the texts of the pages:
\*   TitleKrem, TitleTonik            "Krem / Cream", "Tonik / Tonic"
\*   BodyArticle111, BodyArticle222   "Artikul 111", "Artikul 222"
\*   BodyContents   a contents page, "Krem dlya litsa / Cream\nTonik / Tonic"
\*   BodyProduct    a product page,
\*                  "Krem dlya litsa\nCream\nArtikul 111\nSostav krema\nDlya litsa"
Texts ==
    [ TitleKrem |-> Words.Krem \o Words.Slash \o Words.Cream,
      TitleTonik |-> Words.Tonik \o Words.Slash \o Words.Tonic,
      BodyArticle111 |-> Words.Artikul \o Words.SP \o Words.N111,
      BodyArticle222 |-> Words.Artikul \o Words.SP \o Words.N222,
      BodyContents |->
          Words.Krem \o Words.SP \o Words.dlya \o Words.SP \o Words.litsa
            \o Words.Slash \o Words.Cream
            \o NL \o Words.Tonik \o Words.Slash \o Words.Tonic,
      BodyProduct |->
          Words.Krem \o Words.SP \o Words.dlya \o Words.SP \o Words.litsa
            \o NL \o Words.Cream
            \o NL \o Words.Artikul \o Words.SP \o Words.N111
            \o NL \o Words.Sostav \o Words.SP \o Words.krema
            \o NL \o Words.Dlya \o Words.SP \o Words.litsa ]

Page(title, composition, text) ==
    [ full_text |-> text,
      top_left_title_raw |-> title,
      top_left_title_norm |-> title,
      composition |-> composition ]

\* the pages a document is made of
PagePool ==
    { Page(Texts.TitleKrem, << >>, Texts.BodyArticle111),
      Page(<< >>, << >>, Words.Ph55),
      Page(Texts.TitleTonik, << >>, Texts.BodyArticle222),
      Page(<< >>, << >>, << 32, 10 >>),
      Page(<< >>, << >>, Texts.BodyContents),
      Page(Texts.TitleKrem, Words.Aqua, Texts.BodyProduct) }

\* page numbers run from 0 to MaxPageNum
MaxPageNum == 3

\* the page maps: any pages under any page numbers, with text on some page
\* (extract() returns no map whose pages are all blank)
PageMaps ==
    { m \in UNION { [S -> PagePool] : S \in (SUBSET (0..MaxPageNum)) \ {{}} } :
        \E n \in DOMAIN m : ~IsBlank(m[n].full_text) }

(***************************************************************************)
(* State                                                                   *)
(***************************************************************************)
VARIABLES
    pc,                     \* the statement process_pdf_catalog is at
    raw_text_by_page,       \* main.py: the page map extract_pdf returned
    cleaned_by_page,        \* main.py: the page map clean_text returned
    title_lookup,           \* TextAssembler.title_lookup, items in insertion order
    page_idx,               \* position of the loop in sorted(cleaned_by_page.keys())
    current_product_title,  \* locals of assemble_by_title_anchors
    current_product_pages,
    section_pages,
    all_blocks,
    block_pages,            \* for each block of all_blocks: its kind, the page
                            \* list and the title it was created from
    cleaned_text,           \* the content of cleaned.txt
    missing,                \* find_missing_anchors' result
    qc_passed,              \* check_quality's result
    title_from_roi,         \* arguments and locals of one _resolve_full_title call
    page_text,
    lookup_value,
    full_title,
    previous_lookup,        \* TextAssembler.title_lookup as the current call of
                            \* assemble_by_title_anchors found it
    ocr_available,          \* extractor.py: OCR_AVAILABLE
    page_count,             \* the number of pages of the PDF
    attempted,              \* the strategies extract() has called, in call order
    outcomes,               \* what reading each page did in the last strategy called
    result,                 \* the value the last strategy called returned
    exit_status,            \* the exit status n of the command as << n >>, None
                            \* while it runs
    hyphenated,             \* the argument of one fix_hyphenation call
    dehyphenated,           \* and the text it returned
    cleaner_arg,            \* the argument of one call of a TextCleaner method
    cleaner_ret,            \* and the value it returned
    user_conversations,     \* telegram_bot.py: the chat history of each user
    user_greeted,           \* telegram_bot.py: user_greeted
    user_requests,          \* telegram_bot.py: the request form of each user
    conversations,          \* the state conv_handler keeps for each user
    last_update,            \* the update the bot handled last
    reply,                  \* what the last handler replied to the user
    group_messages,         \* what the last handler sent to the manager group
    sheet_rows              \* the rows the last handler saved in the spreadsheet

vars ==
    << pc, raw_text_by_page, cleaned_by_page, title_lookup, page_idx,
       current_product_title, current_product_pages, section_pages, all_blocks,
       block_pages, cleaned_text, missing, qc_passed, title_from_roi, page_text,
       lookup_value, full_title, previous_lookup, ocr_available, page_count,
       attempted, outcomes, result, exit_status, hyphenated, dehyphenated,
       cleaner_arg, cleaner_ret, user_conversations, user_greeted,
       user_requests, conversations, last_update, reply, group_messages,
       sheet_rows >>

assembly_vars ==
    << title_lookup, page_idx, current_product_title, current_product_pages,
       section_pages, all_blocks, block_pages, previous_lookup >>

extract_vars == << ocr_available, page_count, attempted, outcomes, result, exit_status >>

hyphen_vars == << hyphenated, dehyphenated >>

cleaner_vars == << cleaner_arg, cleaner_ret >>

\* no TextCleaner method has been called on its own
CleanerIdle == cleaner_arg = None /\ cleaner_ret = None

bot_vars ==
    << user_conversations, user_greeted, user_requests, conversations,
       last_update, reply, group_messages, sheet_rows >>

\* telegram_bot.py as imported: the dicts are empty and no update has come
BotIdle ==
    /\ user_conversations = << >>
    /\ user_greeted = << >>
    /\ user_requests = << >>
    /\ conversations = << >>
    /\ last_update = [user |-> 0, text |-> None]
    /\ reply = "none"
    /\ group_messages = {}
    /\ sheet_rows = {}

resolve_vars == << title_from_roi, page_text, lookup_value, full_title >>

\* the empty dict
NoPages == [n \in {} |-> Page(<< >>, << >>, << >>)]

Init ==
    /\ pc = "clean"
    /\ raw_text_by_page \in PageMaps
    /\ cleaned_by_page = NoPages
    /\ title_lookup = << >>
    /\ page_idx = 1
    /\ current_product_title = None
    /\ current_product_pages = << >>
    /\ section_pages = << >>
    /\ all_blocks = << >>
    /\ block_pages = << >>
    /\ cleaned_text = None
    /\ missing = << >>
    /\ qc_passed = FALSE
    /\ title_from_roi = None
    /\ page_text = None
    /\ lookup_value = NoEntry
    /\ full_title = None
    /\ previous_lookup = << >>
    /\ ocr_available = FALSE
    /\ page_count = 0
    /\ attempted = << >>
    /\ outcomes = << >>
    /\ result = NoPages
    /\ exit_status = None
    /\ hyphenated = None
    /\ dehyphenated = None
    /\ CleanerIdle
    /\ BotIdle

(***************************************************************************)
(* cleaner.py: clean_text                                                  *)
(***************************************************************************)
\* a cleaning that leaves out the pages whose text is blank
clean_nonblank(page_data) ==
    [ page_num \in {n \in DOMAIN page_data : ~IsBlank(page_data[n].full_text)} |->
        [ full_text |-> clean_full_text(page_data[page_num].full_text),
          top_left_title_raw |-> page_data[page_num].top_left_title_raw,
          top_left_title_norm |-> page_data[page_num].top_left_title_norm,
          composition |-> page_data[page_num].composition ] ]

clean_text(page_data) ==
    [ page_num \in DOMAIN page_data |->
        [ full_text |-> clean_full_text(page_data[page_num].full_text),
          top_left_title_raw |-> page_data[page_num].top_left_title_raw,
          top_left_title_norm |-> page_data[page_num].top_left_title_norm,
          composition |-> page_data[page_num].composition ] ]

\* main.py, stage 2
Clean ==
    /\ pc = "clean"
    /\ cleaned_by_page' = clean_text(raw_text_by_page)
    /\ pc' = "assemble"
    /\ UNCHANGED << raw_text_by_page, assembly_vars, cleaned_text, missing,
                    qc_passed, resolve_vars,
                    extract_vars, hyphen_vars, cleaner_vars, bot_vars >>

(***************************************************************************)
(* assembler.py: assemble_by_title_anchors, one action per loop branch     *)
(***************************************************************************)
\* sorted(cleaned_by_page.keys())
PageOrder == Sorted(DOMAIN cleaned_by_page)

\* page_num and title_norm of the current iteration
PageNum == PageOrder[page_idx]
TitleNorm == Strip(cleaned_by_page[PageNum].top_left_title_norm)

InLoop == pc = "loop" /\ page_idx <= Len(PageOrder)

\* a title test that takes every titled page for a new product
AlwaysNewTitle(title_norm, current_title) == TRUE

\* a title test that takes no page for the start of a product
NeverNewTitle(title_norm, current_title) == FALSE

\* "if title_norm != current_product_title"
IsNewTitle(title_norm, current_title) == title_norm # current_title

\* "if current_product_title and current_product_pages"
ProductOpen(current_title, current_pages) ==
    Truthy(current_title) /\ Len(current_pages) > 0

\* a test that sends every page without a title to the section
NeverToProduct(current_title) == FALSE

\* "if current_product_title" of the branch for a page without a title
GoesToProduct(current_title) == Truthy(current_title)

\* an append that adds the page twice
AppendPageTwice(pages, page_num) == Append(Append(pages, page_num), page_num)

\* current_product_pages.append(page_num), section_pages.append(page_num)
AppendPage(pages, page_num) == Append(pages, page_num)

\* all_blocks.append(product_block) when a product is open
CloseProduct(blocks) ==
    IF ProductOpen(current_product_title, current_product_pages)
    THEN Append(blocks,
                _create_product_block(title_lookup, current_product_title,
                                      current_product_pages, cleaned_by_page))
    ELSE blocks

ClosePages(infos) ==
    IF ProductOpen(current_product_title, current_product_pages)
    THEN Append(infos, [ kind |-> "product",
                         pages |-> current_product_pages,
                         title |-> current_product_title ])
    ELSE infos

\* a call that scans the pages onto the table it finds
BuildOnto(lookup, cleaned) ==
    LookupScanPages(lookup, cleaned, Sorted(DOMAIN cleaned), 1)

\* self._build_title_lookup(cleaned_by_page) on a TextAssembler whose table is
\* lookup: the method empties self.title_lookup before it scans
RebuildLookup(lookup, cleaned) == _build_title_lookup(cleaned)

\* the head of assemble_by_title_anchors: the lookup and the empty locals
AssembleStart ==
    /\ pc = "assemble"
    /\ previous_lookup' = title_lookup
    /\ title_lookup' = RebuildLookup(title_lookup, cleaned_by_page)
    /\ page_idx' = 1
    /\ current_product_title' = None
    /\ current_product_pages' = << >>
    /\ section_pages' = << >>
    /\ all_blocks' = << >>
    /\ block_pages' = << >>
    /\ pc' = "loop"
    /\ UNCHANGED << raw_text_by_page, cleaned_by_page, cleaned_text, missing,
                    qc_passed, resolve_vars,
                    extract_vars, hyphen_vars, cleaner_vars, bot_vars >>

\* a page with a new title: close the open product, start a new one
StartProduct ==
    /\ InLoop
    /\ Len(TitleNorm) > 0
    /\ IsNewTitle(TitleNorm, current_product_title)
    /\ all_blocks' = CloseProduct(all_blocks)
    /\ block_pages' = ClosePages(block_pages)
    /\ current_product_title' = TitleNorm
    /\ current_product_pages' = << PageNum >>
    /\ page_idx' = page_idx + 1
    /\ UNCHANGED << pc, raw_text_by_page, cleaned_by_page, title_lookup,
                    section_pages, cleaned_text, missing, qc_passed, resolve_vars,
                    previous_lookup, extract_vars, hyphen_vars, cleaner_vars, bot_vars >>

\* a page with the title of the open product
ContinueProduct ==
    /\ InLoop
    /\ Len(TitleNorm) > 0
    /\ ~IsNewTitle(TitleNorm, current_product_title)
    /\ current_product_pages' = AppendPage(current_product_pages, PageNum)
    /\ page_idx' = page_idx + 1
    /\ UNCHANGED << pc, raw_text_by_page, cleaned_by_page, title_lookup,
                    current_product_title, section_pages, all_blocks, block_pages,
                    cleaned_text, missing, qc_passed, resolve_vars,
                    previous_lookup, extract_vars, hyphen_vars, cleaner_vars, bot_vars >>

\* a page without a title while a product is open
UntitledToProduct ==
    /\ InLoop
    /\ Len(TitleNorm) = 0
    /\ GoesToProduct(current_product_title)
    /\ current_product_pages' = AppendPage(current_product_pages, PageNum)
    /\ page_idx' = page_idx + 1
    /\ UNCHANGED << pc, raw_text_by_page, cleaned_by_page, title_lookup,
                    current_product_title, section_pages, all_blocks, block_pages,
                    cleaned_text, missing, qc_passed, resolve_vars,
                    previous_lookup, extract_vars, hyphen_vars, cleaner_vars, bot_vars >>

\* a page without a title before the first product
UntitledToSection ==
    /\ InLoop
    /\ Len(TitleNorm) = 0
    /\ ~GoesToProduct(current_product_title)
    /\ section_pages' = AppendPage(section_pages, PageNum)
    /\ page_idx' = page_idx + 1
    /\ UNCHANGED << pc, raw_text_by_page, cleaned_by_page, title_lookup,
                    current_product_title, current_product_pages, all_blocks,
                    block_pages, cleaned_text, missing, qc_passed, resolve_vars,
                    previous_lookup, extract_vars, hyphen_vars, cleaner_vars, bot_vars >>

\* after the loop: close the last product
CloseLast ==
    /\ pc = "loop"
    /\ page_idx > Len(PageOrder)
    /\ all_blocks' = CloseProduct(all_blocks)
    /\ block_pages' = ClosePages(block_pages)
    /\ pc' = "section"
    /\ UNCHANGED << raw_text_by_page, cleaned_by_page, title_lookup, page_idx,
                    current_product_title, current_product_pages, section_pages,
                    cleaned_text, missing, qc_passed, resolve_vars,
                    previous_lookup, extract_vars, hyphen_vars, cleaner_vars, bot_vars >>

\* "if section_pages:" and "if section_block.strip():"
SectionKept(pages, section_block) == Len(pages) > 0 /\ ~IsBlank(section_block)

\* an insert that puts the section block last
InsertSectionLast(blocks, section_block) == Append(blocks, section_block)

\* all_blocks.insert(0, section_block)
InsertSection(blocks, section_block) == << section_block >> \o blocks

\* the section block goes first, unless it is empty
AddSection ==
    /\ pc = "section"
    /\ all_blocks' =
         IF SectionKept(section_pages,
                        _create_section_block(section_pages, cleaned_by_page))
         THEN InsertSection(all_blocks,
                            _create_section_block(section_pages, cleaned_by_page))
         ELSE all_blocks
    /\ block_pages' =
         IF SectionKept(section_pages,
                        _create_section_block(section_pages, cleaned_by_page))
         THEN InsertSection(block_pages, [ kind |-> "section",
                                           pages |-> section_pages,
                                           title |-> None ])
         ELSE block_pages
    /\ pc' = "write"
    /\ UNCHANGED << raw_text_by_page, cleaned_by_page, title_lookup, page_idx,
                    current_product_title, current_product_pages, section_pages,
                    cleaned_text, missing, qc_passed, resolve_vars,
                    previous_lookup, extract_vars, hyphen_vars, cleaner_vars, bot_vars >>

(***************************************************************************)
(* main.py: cleaned.txt and quality control                                *)
(***************************************************************************)
\* the blocks, two newlines between them
WriteCleaned ==
    /\ pc = "write"
    /\ cleaned_text' = Join(all_blocks, << 10, 10 >>)
    /\ pc' = "qc"
    /\ UNCHANGED << raw_text_by_page, cleaned_by_page, assembly_vars, missing,
                    qc_passed, resolve_vars,
                    extract_vars, hyphen_vars, cleaner_vars, bot_vars >>

\* check_quality over raw_text_by_page_for_qc, the full_text of every page;
\* generate_qc_report returns "not missing"
QualityControl ==
    /\ pc = "qc"
    /\ missing' =
         find_missing_anchors(
             extract_anchors_from_raw(
                 [n \in DOMAIN raw_text_by_page |-> raw_text_by_page[n].full_text]),
             extract_anchors_from_cleaned(cleaned_text))
    /\ qc_passed' = (DOMAIN missing' = {})
    /\ pc' = "done"
    /\ UNCHANGED << raw_text_by_page, cleaned_by_page, assembly_vars, cleaned_text,
                    resolve_vars,
                    extract_vars, hyphen_vars, cleaner_vars, bot_vars >>

\* an end of the command that reports the verdict of QC
ExitByVerdict ==
    /\ pc = "done"
    /\ exit_status' = IF qc_passed THEN << 0 >> ELSE << 1 >>
    /\ pc' = "exit"
    /\ UNCHANGED << raw_text_by_page, cleaned_by_page, assembly_vars, cleaned_text,
                    missing, qc_passed, resolve_vars, ocr_available, page_count,
                    attempted, outcomes, result, hyphen_vars, cleaner_vars, bot_vars >>

\* process_pdf_catalog returns qc_passed; main.py drops the value and the
\* command ends without sys.exit, with status 0
Exit ==
    /\ pc = "done"
    /\ exit_status' = << 0 >>
    /\ pc' = "exit"
    /\ UNCHANGED << raw_text_by_page, cleaned_by_page, assembly_vars, cleaned_text,
                    missing, qc_passed, resolve_vars, ocr_available, page_count,
                    attempted, outcomes, result, hyphen_vars, cleaner_vars, bot_vars >>

Next ==
    \/ Clean
    \/ AssembleStart
    \/ StartProduct
    \/ ContinueProduct
    \/ UntitledToProduct
    \/ UntitledToSection
    \/ CloseLast
    \/ AddSection
    \/ WriteCleaned
    \/ QualityControl
    \/ Exit

Spec == Init /\ [][Next]_vars

(***************************************************************************)
(* One call of _resolve_full_title, with title_lookup set by the caller     *)
(***************************************************************************)
\* an item of title_lookup: english_lower -> (russian, english)
Entry(ru, en) == [key |-> Lower(en), ru |-> ru, en |-> en]

\* the items the tables are made of
Entries ==
    [ CleansingMilk |->
          Entry(Words.Ochischayuschee \o Words.SP \o Words.Molochko, Words.CleansingMilk),
      Milk |-> Entry(Words.Moloko, Words.Milk),
      Milky |-> Entry(Words.Molochnyi, Words.Milky) ]

\* the tables title_lookup is set to: tables a caller fills with full titles,
\* and the tables _build_title_lookup builds from a contents page
LookupTables ==
    { << >>,
      << Entries.CleansingMilk >>,
      << Entries.Milk, Entries.CleansingMilk >>,
      << Entries.CleansingMilk, Entries.Milk >>,
      << Entries.Milky, Entries.CleansingMilk >>,
      << Entries.CleansingMilk, Entries.Milky >>,
      _build_title_lookup([n \in {0} |-> Page(<< >>, << >>, Texts.BodyContents)]) }

\* the ROI titles: bilingual, Russian only, empty
RoiTitles ==
    { Texts.TitleKrem,
      Texts.TitleTonik,
      Words.Molochko \o Words.Slash \o Words.Cleans,
      Words.Molochko,
      Words.Krem,
      << >> }

\* the texts of a product: with and without an article code, with and without
\* title lines before it
ResolveTexts ==
    { Texts.BodyArticle111,
      Words.Ph55,
      Texts.BodyProduct,
      Words.Cleans \o NL \o Texts.BodyArticle111,
      Words.Milk \o NL \o Texts.BodyArticle111,
      Words.Ilk \o NL \o Texts.BodyArticle111,
      Words.CleansingMilk \o NL \o Texts.BodyArticle111,
      Words.Molochko \o NL \o Words.Cleans \o NL \o Texts.BodyArticle111,
      Words.Molochko \o NL \o Texts.BodyArticle111,
      Words.Krem \o Words.SP \o Words.dlya \o Words.SP \o Words.litsa
        \o NL \o Texts.BodyArticle111 }

InitResolve ==
    /\ pc = "resolve"
    /\ title_lookup \in LookupTables
    /\ title_from_roi \in RoiTitles
    /\ page_text \in ResolveTexts
    /\ lookup_value = NoEntry
    /\ full_title = None
    /\ previous_lookup = << >>
    /\ ocr_available = FALSE
    /\ page_count = 0
    /\ attempted = << >>
    /\ outcomes = << >>
    /\ result = NoPages
    /\ exit_status = None
    /\ hyphenated = None
    /\ dehyphenated = None
    /\ CleanerIdle
    /\ BotIdle
    /\ raw_text_by_page = NoPages
    /\ cleaned_by_page = NoPages
    /\ page_idx = 1
    /\ current_product_title = None
    /\ current_product_pages = << >>
    /\ section_pages = << >>
    /\ all_blocks = << >>
    /\ block_pages = << >>
    /\ cleaned_text = None
    /\ missing = << >>
    /\ qc_passed = FALSE

\* english_lower, the key the table is searched with (None when no English
\* title was found and the call returned before the search)
EnglishLower ==
    IF Truthy(EnglishTitle(title_from_roi, page_text))
    THEN Lower(EnglishTitle(title_from_roi, page_text))
    ELSE None

\* the call: lookup_value as the search left it, and the returned title
Resolve ==
    /\ pc = "resolve"
    /\ lookup_value' = IF EnglishLower = None THEN NoEntry
                       ELSE LookupValue(title_lookup, EnglishLower)
    /\ full_title' = _resolve_full_title(title_lookup, title_from_roi, page_text)
    /\ pc' = "resolved"
    /\ UNCHANGED << raw_text_by_page, cleaned_by_page, assembly_vars, cleaned_text,
                    missing, qc_passed, title_from_roi, page_text,
                    extract_vars, hyphen_vars, cleaner_vars, bot_vars >>

NextResolve == Resolve

SpecResolve == InitResolve /\ [][NextResolve]_vars

(***************************************************************************)
(* The lookup of one document: cleaning, then the head of                  *)
(* assemble_by_title_anchors                                               *)
(***************************************************************************)
\* contents pages whose titles collide on the key: "Krem / Cream";
\* "Krem dlya litsa / Cream\nTonik / Tonic"; "litsa / Cream\nKrem / Cream"
LookupPool ==
    { Page(<< >>, << >>, Texts.TitleKrem),
      Page(<< >>, << >>, Texts.BodyContents),
      Page(<< >>, << >>,
           Words.litsa \o Words.Slash \o Words.Cream \o NL \o Texts.TitleKrem) }

\* documents of up to MaxLookupPages pages, one more than the lookup scans
MaxLookupPages == 6

LookupMaps == UNION { [0..(n - 1) -> LookupPool] : n \in 1..MaxLookupPages }

InitLookup ==
    /\ pc = "clean"
    /\ raw_text_by_page \in LookupMaps
    /\ cleaned_by_page = NoPages
    /\ title_lookup = << >>
    /\ page_idx = 1
    /\ current_product_title = None
    /\ current_product_pages = << >>
    /\ section_pages = << >>
    /\ all_blocks = << >>
    /\ block_pages = << >>
    /\ cleaned_text = None
    /\ missing = << >>
    /\ qc_passed = FALSE
    /\ title_from_roi = None
    /\ page_text = None
    /\ lookup_value = NoEntry
    /\ full_title = None
    /\ previous_lookup = << >>
    /\ ocr_available = FALSE
    /\ page_count = 0
    /\ attempted = << >>
    /\ outcomes = << >>
    /\ result = NoPages
    /\ exit_status = None
    /\ hyphenated = None
    /\ dehyphenated = None
    /\ CleanerIdle
    /\ BotIdle

NextLookup ==
    \/ Clean
    \/ AssembleStart

SpecLookup == InitLookup /\ [][NextLookup]_vars

(***************************************************************************)
(* Several assembly runs: assemble_text called again, which makes a new    *)
(* TextAssembler, or assemble_by_title_anchors called again on the same    *)
(* TextAssembler                                                           *)
(***************************************************************************)
\* the pages of the documents: two contents pages with different titles,
\* "Krem dlya litsa / Cream\nTonik / Tonic" and "Molochko / Milk", and a
\* product page under the title "Krem / Cream"
RunPool ==
    { Page(<< >>, << >>, Texts.BodyContents),
      Page(<< >>, << >>, Words.Molochko \o Words.Slash \o Words.Milk),
      Page(Texts.TitleKrem, Words.Aqua, Texts.BodyProduct) }

\* documents of up to MaxRunPages pages
MaxRunPages == 2

RunMaps == UNION { [0..(n - 1) -> RunPool] : n \in 1..MaxRunPages }

InitRuns ==
    /\ pc = "assemble"
    /\ raw_text_by_page = NoPages
    /\ cleaned_by_page \in RunMaps
    /\ title_lookup = << >>
    /\ page_idx = 1
    /\ current_product_title = None
    /\ current_product_pages = << >>
    /\ section_pages = << >>
    /\ all_blocks = << >>
    /\ block_pages = << >>
    /\ cleaned_text = None
    /\ missing = << >>
    /\ qc_passed = FALSE
    /\ title_from_roi = None
    /\ page_text = None
    /\ lookup_value = NoEntry
    /\ full_title = None
    /\ previous_lookup = << >>
    /\ ocr_available = FALSE
    /\ page_count = 0
    /\ attempted = << >>
    /\ outcomes = << >>
    /\ result = NoPages
    /\ exit_status = None
    /\ hyphenated = None
    /\ dehyphenated = None
    /\ CleanerIdle
    /\ BotIdle

\* assemble_text(cleaned_by_page) after a run has returned: a new
\* TextAssembler, whose __init__ sets title_lookup to {}
NewAssembler ==
    /\ pc = "write"
    /\ cleaned_by_page' \in RunMaps
    /\ title_lookup' = << >>
    /\ pc' = "assemble"
    /\ UNCHANGED << raw_text_by_page, page_idx, current_product_title,
                    current_product_pages, section_pages, all_blocks, block_pages,
                    previous_lookup, cleaned_text, missing, qc_passed, resolve_vars,
                    extract_vars, hyphen_vars, cleaner_vars, bot_vars >>

\* assembler.assemble_by_title_anchors(cleaned_by_page) after a run has
\* returned, on the TextAssembler of that run
SameAssembler ==
    /\ pc = "write"
    /\ cleaned_by_page' \in RunMaps
    /\ pc' = "assemble"
    /\ UNCHANGED << raw_text_by_page, title_lookup, page_idx, current_product_title,
                    current_product_pages, section_pages, all_blocks, block_pages,
                    previous_lookup, cleaned_text, missing, qc_passed, resolve_vars,
                    extract_vars, hyphen_vars, cleaner_vars, bot_vars >>

NextRuns ==
    \/ AssembleStart
    \/ StartProduct
    \/ ContinueProduct
    \/ UntitledToProduct
    \/ UntitledToSection
    \/ CloseLast
    \/ AddSection
    \/ NewAssembler
    \/ SameAssembler

SpecRuns == InitRuns /\ [][NextRuns]_vars

(***************************************************************************)
(* extractor.py: PDFExtractor, and the command of main.py from its start    *)
(***************************************************************************)
\* what reading one page did in a strategy, and the record of the page when
\* nothing raises:
\*   "text"        the loop body ran to its end
\*   "roi_raises"  the text was read, and reading the title region and the
\*                 composition region raised
\*   "raises"      reading the text of the page raised
Outcome(kind, page) == [kind |-> kind, page |-> page]

\* the pages a strategy reads: a titled page, a page without a title, a page
\* with blank text
ExtractPool ==
    { Page(Texts.TitleKrem, Words.Aqua, Texts.BodyArticle111),
      Page(<< >>, << >>, Words.Ph55),
      Page(<< >>, << >>, << 32, 10 >>) }

PageOutcomes ==
    { Outcome("text", p) : p \in ExtractPool }
      \cup { Outcome("roi_raises",
                     Page(Texts.TitleKrem, Words.Aqua, Texts.BodyArticle111)),
             Outcome("raises", Page(<< >>, << >>, << >>)) }

\* documents have up to MaxDocPages pages
MaxDocPages == 2

\* what a strategy can meet on a document of n pages
Documents(n) == [1..n -> PageOutcomes]

\* the record of a page whose title and composition helpers caught an
\* exception: extract_top_left_roi_text returns "", "" and
\* extract_composition_text returns ""
WithoutRoi(page) == Page(<< >>, << >>, page.full_text)

\* extract_with_pymupdf: the helpers catch their own exceptions; any other
\* exception leaves the page loop for "return {}"
extract_with_pymupdf(outs) ==
    IF \E i \in 1..Len(outs) : outs[i].kind = "raises" THEN NoPages
    ELSE [ page_num \in 0..(Len(outs) - 1) |->
             IF outs[page_num + 1].kind = "roi_raises"
             THEN WithoutRoi(outs[page_num + 1].page)
             ELSE outs[page_num + 1].page ]

\* extract_with_pdfplumber: every exception leaves the page loop for
\* "return {}"
extract_with_pdfplumber(outs) ==
    IF \E i \in 1..Len(outs) : outs[i].kind # "text" THEN NoPages
    ELSE [ page_num \in 0..(Len(outs) - 1) |-> outs[page_num + 1].page ]

\* extract_with_ocr when OCR_AVAILABLE: as extract_with_pdfplumber
extract_with_ocr(outs) ==
    IF \E i \in 1..Len(outs) : outs[i].kind # "text" THEN NoPages
    ELSE [ page_num \in 0..(Len(outs) - 1) |-> outs[page_num + 1].page ]

\* a test that takes any page for a success
AnyPage(res) == DOMAIN res # {}

\* "result and any(data.get('full_text', '').strip() for data in result.values())"
Succeeded(res) ==
    /\ DOMAIN res # {}
    /\ \E n \in DOMAIN res : ~IsBlank(res[n].full_text)

\* extract(): the call of extract_with_pymupdf and the test of its result
TryPyMuPDF ==
    /\ pc = "extract"
    /\ \E outs \in Documents(page_count) :
         /\ outcomes' = outs
         /\ result' = extract_with_pymupdf(outs)
    /\ attempted' = Append(attempted, "PyMuPDF")
    /\ raw_text_by_page' = IF Succeeded(result') THEN result' ELSE raw_text_by_page
    /\ pc' = IF Succeeded(result') THEN "clean" ELSE "pdfplumber"
    /\ UNCHANGED << cleaned_by_page, assembly_vars, cleaned_text, missing, qc_passed,
                    resolve_vars, ocr_available, page_count, exit_status, hyphen_vars, cleaner_vars, bot_vars >>

\* extract(): the call of extract_with_pdfplumber and the test of its result
TryPdfplumber ==
    /\ pc = "pdfplumber"
    /\ \E outs \in Documents(page_count) :
         /\ outcomes' = outs
         /\ result' = extract_with_pdfplumber(outs)
    /\ attempted' = Append(attempted, "pdfplumber")
    /\ raw_text_by_page' = IF Succeeded(result') THEN result' ELSE raw_text_by_page
    /\ pc' = IF Succeeded(result') THEN "clean" ELSE "ocr"
    /\ UNCHANGED << cleaned_by_page, assembly_vars, cleaned_text, missing, qc_passed,
                    resolve_vars, ocr_available, page_count, exit_status, hyphen_vars, cleaner_vars, bot_vars >>

\* extract(): "if OCR_AVAILABLE", the call of extract_with_ocr and the test
\* of its result
TryOcr ==
    /\ pc = "ocr"
    /\ ocr_available
    /\ \E outs \in Documents(page_count) :
         /\ outcomes' = outs
         /\ result' = extract_with_ocr(outs)
    /\ attempted' = Append(attempted, "OCR")
    /\ raw_text_by_page' = IF Succeeded(result') THEN result' ELSE raw_text_by_page
    /\ pc' = IF Succeeded(result') THEN "clean" ELSE "raise"
    /\ UNCHANGED << cleaned_by_page, assembly_vars, cleaned_text, missing, qc_passed,
                    resolve_vars, ocr_available, page_count, exit_status, hyphen_vars, cleaner_vars, bot_vars >>

\* extract(): the call of extract_with_ocr raises, "except Exception" prints
OcrRaises ==
    /\ pc = "ocr"
    /\ ocr_available
    /\ attempted' = Append(attempted, "OCR")
    /\ outcomes' = << >>
    /\ pc' = "raise"
    /\ UNCHANGED << raw_text_by_page, cleaned_by_page, assembly_vars, cleaned_text,
                    missing, qc_passed, resolve_vars, ocr_available, page_count,
                    result, exit_status, hyphen_vars, cleaner_vars, bot_vars >>

\* extract(): the else branch of "if OCR_AVAILABLE"
SkipOcr ==
    /\ pc = "ocr"
    /\ ~ocr_available
    /\ pc' = "raise"
    /\ UNCHANGED << raw_text_by_page, cleaned_by_page, assembly_vars, cleaned_text,
                    missing, qc_passed, resolve_vars, extract_vars, hyphen_vars, cleaner_vars, bot_vars >>

\* a handler that goes on with whatever the last strategy returned
ExtractIgnored ==
    /\ pc = "raise"
    /\ raw_text_by_page' = result
    /\ pc' = "clean"
    /\ UNCHANGED << cleaned_by_page, assembly_vars, cleaned_text, missing, qc_passed,
                    resolve_vars, extract_vars, hyphen_vars, cleaner_vars, bot_vars >>

\* the raise that ends extract() passes through extract_pdf and
\* process_pdf_catalog to the handler of main.py, which calls sys.exit(1)
ExtractFails ==
    /\ pc = "raise"
    /\ exit_status' = << 1 >>
    /\ pc' = "exit"
    /\ UNCHANGED << raw_text_by_page, cleaned_by_page, assembly_vars, cleaned_text,
                    missing, qc_passed, resolve_vars, ocr_available, page_count,
                    attempted, outcomes, result, hyphen_vars, cleaner_vars, bot_vars >>

InitExtract ==
    /\ pc = "extract"
    /\ page_count \in 1..MaxDocPages
    /\ ocr_available \in BOOLEAN
    /\ raw_text_by_page = NoPages
    /\ cleaned_by_page = NoPages
    /\ title_lookup = << >>
    /\ page_idx = 1
    /\ current_product_title = None
    /\ current_product_pages = << >>
    /\ section_pages = << >>
    /\ all_blocks = << >>
    /\ block_pages = << >>
    /\ cleaned_text = None
    /\ missing = << >>
    /\ qc_passed = FALSE
    /\ title_from_roi = None
    /\ page_text = None
    /\ lookup_value = NoEntry
    /\ full_title = None
    /\ previous_lookup = << >>
    /\ attempted = << >>
    /\ outcomes = << >>
    /\ result = NoPages
    /\ exit_status = None
    /\ hyphenated = None
    /\ dehyphenated = None
    /\ CleanerIdle
    /\ BotIdle

NextExtract ==
    \/ TryPyMuPDF
    \/ TryPdfplumber
    \/ TryOcr
    \/ OcrRaises
    \/ SkipOcr
    \/ ExtractFails
    \/ Next

SpecExtract == InitExtract /\ [][NextExtract]_vars

(***************************************************************************)
(* One call of fix_hyphenation                                              *)
(***************************************************************************)
\* the characters of the texts: a lowercase and an uppercase Cyrillic
\* letter, a digit, the hyphen, the space and the newline
HyphenChars == { 1082, 1050, 53, 45, 32, 10 }

\* texts of up to MaxTextLen characters
MaxTextLen == 5

\* the texts: "gidro- lizovannyi" and "ekstra-\nkt", and every text over the
\* characters
HyphenTexts ==
    { << 1075, 1080, 1076, 1088, 1086, 45, 32,
         1083, 1080, 1079, 1086, 1074, 1072, 1085, 1085, 1099, 1081 >>,
      << 1101, 1082, 1089, 1090, 1088, 1072, 45, 10, 1082, 1090 >> }
      \cup UNION { [1..n -> HyphenChars] : n \in 0..MaxTextLen }

InitHyphen ==
    /\ pc = "fix"
    /\ hyphenated \in HyphenTexts
    /\ dehyphenated = None
    /\ CleanerIdle
    /\ BotIdle
    /\ raw_text_by_page = NoPages
    /\ cleaned_by_page = NoPages
    /\ title_lookup = << >>
    /\ page_idx = 1
    /\ current_product_title = None
    /\ current_product_pages = << >>
    /\ section_pages = << >>
    /\ all_blocks = << >>
    /\ block_pages = << >>
    /\ cleaned_text = None
    /\ missing = << >>
    /\ qc_passed = FALSE
    /\ title_from_roi = None
    /\ page_text = None
    /\ lookup_value = NoEntry
    /\ full_title = None
    /\ previous_lookup = << >>
    /\ ocr_available = FALSE
    /\ page_count = 0
    /\ attempted = << >>
    /\ outcomes = << >>
    /\ result = NoPages
    /\ exit_status = None

\* the call
FixHyphenation ==
    /\ pc = "fix"
    /\ dehyphenated' = fix_hyphenation(hyphenated)
    /\ pc' = "fixed"
    /\ UNCHANGED << raw_text_by_page, cleaned_by_page, assembly_vars, cleaned_text,
                    missing, qc_passed, resolve_vars, extract_vars, hyphenated, cleaner_vars, bot_vars >>

SpecHyphen == InitHyphen /\ [][FixHyphenation]_vars

(***************************************************************************)
(* assemble_by_title_anchors on cleaned pages of every kind                *)
(***************************************************************************)
\* the cleaned pages: a titled page whose text is blank (the OCR of the page
\* gave nothing, the OCR of its corners did), titled pages with and without a
\* composition, a page without a title whose text has blank lines, and a page
\* of another product
BlockPool ==
    { Page(Texts.TitleKrem, Words.Aqua, << 32, 10 >>),
      Page(Texts.TitleKrem, Words.Sostav \o Words.SP \o Words.krema,
           Texts.BodyArticle111),
      Page(Texts.TitleKrem, << >>, Texts.BodyProduct),
      Page(<< >>, Words.Dlya \o Words.SP \o Words.litsa,
           Words.Ph55 \o << 10, 32, 10, 10 >> \o Words.Dlya \o Words.SP \o Words.litsa
             \o NL),
      Page(Texts.TitleTonik, << >>, Texts.BodyArticle222) }

\* documents of up to MaxBlockPages pages
MaxBlockPages == 3

BlockMaps == UNION { [0..(n - 1) -> BlockPool] : n \in 1..MaxBlockPages }

InitBlocks ==
    /\ pc = "assemble"
    /\ raw_text_by_page = NoPages
    /\ cleaned_by_page \in BlockMaps
    /\ title_lookup = << >>
    /\ page_idx = 1
    /\ current_product_title = None
    /\ current_product_pages = << >>
    /\ section_pages = << >>
    /\ all_blocks = << >>
    /\ block_pages = << >>
    /\ cleaned_text = None
    /\ missing = << >>
    /\ qc_passed = FALSE
    /\ title_from_roi = None
    /\ page_text = None
    /\ lookup_value = NoEntry
    /\ full_title = None
    /\ previous_lookup = << >>
    /\ ocr_available = FALSE
    /\ page_count = 0
    /\ attempted = << >>
    /\ outcomes = << >>
    /\ result = NoPages
    /\ exit_status = None
    /\ hyphenated = None
    /\ dehyphenated = None
    /\ CleanerIdle
    /\ BotIdle

NextBlocks ==
    \/ AssembleStart
    \/ StartProduct
    \/ ContinueProduct
    \/ UntitledToProduct
    \/ UntitledToSection
    \/ CloseLast
    \/ AddSection

SpecBlocks == InitBlocks /\ [][NextBlocks]_vars

(***************************************************************************)
(* Calls of single TextCleaner methods                                     *)
(***************************************************************************)
\* nothing of the pipeline has run
PipelineIdle ==
    /\ raw_text_by_page = NoPages
    /\ cleaned_by_page = NoPages
    /\ title_lookup = << >>
    /\ page_idx = 1
    /\ current_product_title = None
    /\ current_product_pages = << >>
    /\ section_pages = << >>
    /\ all_blocks = << >>
    /\ block_pages = << >>
    /\ cleaned_text = None
    /\ missing = << >>
    /\ qc_passed = FALSE
    /\ title_from_roi = None
    /\ page_text = None
    /\ lookup_value = NoEntry
    /\ full_title = None
    /\ previous_lookup = << >>
    /\ ocr_available = FALSE
    /\ page_count = 0
    /\ attempted = << >>
    /\ outcomes = << >>
    /\ result = NoPages
    /\ exit_status = None
    /\ hyphenated = None
    /\ dehyphenated = None

\* what a call of a TextCleaner method leaves alone
CallFrame ==
    UNCHANGED << raw_text_by_page, cleaned_by_page, assembly_vars, cleaned_text,
                 missing, qc_passed, resolve_vars, extract_vars, hyphen_vars,
                 bot_vars >>

\* a bullet, a hyphen, a digit, a closing parenthesis, the letter V (a roman
\* numeral too), a blank, a tab and a newline
MarkerChars == { 8226, 45, 49, 41, 86, 32, 9, 10 }

\* texts of up to MaxMarkedLen characters
MaxMarkedLen == 5

\* the texts: the two list items "* Nanosit utrom" (with a bullet and two
\* blanks) and "1) Smyt vodoi", and every text over the characters
MarkedTexts ==
    { << 8226, 32, 32, 1053, 1072, 1085, 1086, 1089, 1080, 1090, 1100, 32,
         1091, 1090, 1088, 1086, 1084 >>,
      << 49, 41, 32, 1057, 1084, 1099, 1090, 1100, 32, 1074, 1086, 1076, 1086, 1081 >> }
      \cup UNION { [1..n -> MarkerChars] : n \in 0..MaxMarkedLen }

InitMarkers ==
    /\ pc = "markers"
    /\ cleaner_arg \in MarkedTexts
    /\ cleaner_ret = None
    /\ PipelineIdle
    /\ BotIdle

\* the call
RemoveListMarkers ==
    /\ pc = "markers"
    /\ cleaner_ret' = remove_list_markers(cleaner_arg)
    /\ pc' = "unmarked"
    /\ UNCHANGED cleaner_arg
    /\ CallFrame

SpecMarkers == InitMarkers /\ [][RemoveListMarkers]_vars

\* a line of SubheadingLen characters that starts with c
LongLine(c) == << c >> \o [i \in 1..(SubheadingLen - 1) |-> 1082]

\* the lines "a", "Krem", "b:", "v.", the blank line, a long line that starts
\* with an uppercase letter and a line that starts with a Greek capital
MergeLinePool ==
    { << 1072 >>, << 1050, 1088, 1077, 1084 >>, << 1073, 58 >>, << 1074, 46 >>,
      << >>, LongLine(1069), << 937, 1084 >> }

\* a lowercase and an uppercase letter, a full stop, a colon, a blank and a
\* newline
MergeChars == { 1072, 1040, 46, 58, 32, 10 }

\* texts of up to MaxMergeLines lines of the pool, and texts of up to
\* MaxMergeLen characters
MaxMergeLines == 4

MaxMergeLen == 5

MergeTexts ==
    { Join(ls, NL) : ls \in UNION { [1..n -> MergeLinePool] : n \in 1..MaxMergeLines } }
      \cup UNION { [1..n -> MergeChars] : n \in 0..MaxMergeLen }

InitMerge ==
    /\ pc = "merge"
    /\ cleaner_arg \in MergeTexts
    /\ cleaner_ret = None
    /\ PipelineIdle
    /\ BotIdle

\* the call
MergeLines ==
    /\ pc = "merge"
    /\ cleaner_ret' = merge_lines_in_sentences(cleaner_arg)
    /\ pc' = "merged"
    /\ UNCHANGED cleaner_arg
    /\ CallFrame

SpecMerge == InitMerge /\ [][MergeLines]_vars

\* a hyphen, a digit, a full stop, a letter, a blank and a newline
CleanChars == { 45, 49, 46, 1072, 32, 10 }

\* page texts of up to MaxCleanLen characters
MaxCleanLen == 5

\* the texts: the list item "1. - Smyt vodoi", and every text over the
\* characters
CleanTexts ==
    { << 49, 46, 32, 45, 32, 1057, 1084, 1099, 1090, 1100, 32, 1074, 1086, 1076,
         1086, 1081 >> }
      \cup UNION { [1..n -> CleanChars] : n \in 0..MaxCleanLen }

InitClean ==
    /\ pc = "page"
    /\ cleaner_arg \in CleanTexts
    /\ cleaner_ret = None
    /\ PipelineIdle
    /\ BotIdle

\* the rules of clean_text applied to the full_text of a page
CleanOnce ==
    /\ pc = "page"
    /\ cleaner_ret' = clean_full_text(cleaner_arg)
    /\ pc' = "cleaned_once"
    /\ UNCHANGED cleaner_arg
    /\ CallFrame

\* and applied to what they returned
CleanAgain ==
    /\ pc = "cleaned_once"
    /\ cleaner_arg' = cleaner_ret
    /\ cleaner_ret' = clean_full_text(cleaner_ret)
    /\ pc' = "cleaned_twice"
    /\ CallFrame

NextClean == CleanOnce \/ CleanAgain

SpecClean == InitClean /\ [][NextClean]_vars

(***************************************************************************)
(* telegram_bot.py: the handlers of the bot                                *)
(***************************************************************************)
\* the texts of the updates: "/start", "/cancel", the word of the second
\* fallback and the captions of the two buttons
StartCommand == << 47, 115, 116, 97, 114, 116 >>

CancelCommand == << 47, 99, 97, 110, 99, 101, 108 >>

CancelText == << 1054, 1090, 1084, 1077, 1085, 1072 >>

ContactManagerText ==
    << 1057, 1074, 1103, 1079, 1072, 1090, 1100, 1089, 1103, 32, 1089,
       32, 1084, 1077, 1085, 1077, 1076, 1078, 1077, 1088, 1086, 1084 >>

MakeOrderText ==
    << 1057, 1076, 1077, 1083, 1072, 1090, 1100, 32, 1079, 1072, 1082,
       1072, 1079 >>

\* the text messages a user sends
Updates ==
    { StartCommand, CancelCommand, CancelText, ContactManagerText, MakeOrderText }

\* one user: every dict of the module is keyed by the user's id
Users == { 1 }

\* d[k] = v, and del d[k]
Put(d, k, v) == [x \in DOMAIN d \cup {k} |-> IF x = k THEN v ELSE d[x]]

Remove(d, k) == [x \in DOMAIN d \ {k} |-> d[x]]

\* filters.COMMAND: the message starts with a bot command
IsCommand(message) == Len(message) > 0 /\ message[1] = 47

\* ConversationState, 0 standing for no conversation (ConversationHandler.END)
WAITING_FOR_NAME == 1

WAITING_FOR_PHONE == 2

WAITING_FOR_ORDER_DETAILS == 3

\* the state conv_handler has for the user
StateOf(u) == IF u \in DOMAIN conversations THEN conversations[u] ELSE 0

\* conv_handler's choice of a handler for the message, "none" when it does
\* not take the update: without a conversation the entry points; within one
\* the handlers of the state, and the fallbacks when none of those matches
ConvCheck(state, message) ==
    IF state = 0
    THEN CASE message = ContactManagerText -> "handle_button_contact_manager"
           [] message = MakeOrderText -> "handle_button_make_order"
           [] OTHER -> "none"
    ELSE IF ~IsCommand(message)
         THEN CASE state = WAITING_FOR_NAME -> "handle_name"
                [] state = WAITING_FOR_PHONE -> "handle_phone"
                [] state = WAITING_FOR_ORDER_DETAILS -> "handle_order_details"
    ELSE IF message = CancelCommand \/ message = CancelText THEN "cancel"
    ELSE "none"

\* the handlers of the application in the order main() adds them: the first
\* that takes the update handles it
Dispatch(state, message) ==
    IF message = StartCommand THEN "start"
    ELSE IF ConvCheck(state, message) # "none" THEN ConvCheck(state, message)
    ELSE IF ~IsCommand(message) THEN "handle_message"
    ELSE "none"

\* the history is cut to its last HistoryLimit entries
HistoryLimit == 20

\* /start is handled only while the history has fewer than MaxHistory entries
MaxHistory == 22

HistoryOf(u) ==
    IF u \in DOMAIN user_conversations THEN user_conversations[u] ELSE << >>

Turn(role, content) == [role |-> role, content |-> content]

\* what openai_service.get_response returned: "ok"
Response == << 111, 107 >>

\* user_conversations[user_id][-20:] when the history is longer
Trim(history) ==
    IF Len(history) > HistoryLimit
    THEN SubSeq(history, Len(history) - HistoryLimit + 1, Len(history))
    ELSE history

\* the record a button puts in user_requests; a key that is not set is None
NewRequest(type, u) ==
    [ type |-> type, user_id |-> u, name |-> None, phone |-> None,
      order_details |-> None ]

\* a row of the spreadsheet: of the dialogs sheet, or of a sheet of requests
DialogRow(u, message) ==
    [ sheet |-> "dialogs", user_id |-> u, name |-> None, phone |-> None,
      details |-> message ]

RequestRow(request) ==
    [ sheet |-> request.type, user_id |-> request.user_id, name |-> request.name,
      phone |-> request.phone, details |-> request.order_details ]

\* what the handlers of the bot leave alone
BotFrame ==
    UNCHANGED << pc, raw_text_by_page, cleaned_by_page, assembly_vars, cleaned_text,
                 missing, qc_passed, resolve_vars, extract_vars, hyphen_vars,
                 cleaner_vars >>

\* the handler has no message for the group and saves the rows, or fewer when
\* sheets_service fails
Saves(rows) == group_messages' = {} /\ sheet_rows' \in SUBSET rows

\* start: the welcome is appended to the history, which is not cut here;
\* when openai_service.get_response raises nothing is appended or sent
Start ==
    \E u \in Users, message \in Updates :
        /\ Dispatch(StateOf(u), message) = "start"
        /\ Len(HistoryOf(u)) < MaxHistory
        /\ last_update' = [user |-> u, text |-> message]
        /\ user_greeted' = Put(user_greeted, u, TRUE)
        /\ \/ /\ user_conversations' =
                   Put(user_conversations, u,
                       HistoryOf(u) \o << Turn("user", StartCommand),
                                          Turn("assistant", Response) >>)
              /\ Saves({DialogRow(u, StartCommand)})
              /\ reply' = "welcome"
           \/ /\ user_conversations' = Put(user_conversations, u, HistoryOf(u))
              /\ Saves({})
              /\ reply' = "none"
        /\ UNCHANGED << user_requests, conversations >>
        /\ BotFrame

\* handle_button_contact_manager and handle_button_make_order
OpenForm(u, message, type) ==
    /\ last_update' = [user |-> u, text |-> message]
    /\ user_requests' = Put(user_requests, u, NewRequest(type, u))
    /\ Saves({DialogRow(u, message)})
    /\ reply' = "ask_name"
    /\ conversations' = Put(conversations, u, WAITING_FOR_NAME)
    /\ UNCHANGED << user_conversations, user_greeted >>
    /\ BotFrame

ButtonContactManager ==
    \E u \in Users, message \in Updates :
        /\ Dispatch(StateOf(u), message) = "handle_button_contact_manager"
        /\ OpenForm(u, message, "consultation")

ButtonMakeOrder ==
    \E u \in Users, message \in Updates :
        /\ Dispatch(StateOf(u), message) = "handle_button_make_order"
        /\ OpenForm(u, message, "order")

\* "if user_id not in user_requests": the handler ends the conversation
FormLost(u, message) ==
    /\ u \notin DOMAIN user_requests
    /\ last_update' = [user |-> u, text |-> message]
    /\ Saves({})
    /\ reply' = "error"
    /\ conversations' = Remove(conversations, u)
    /\ UNCHANGED << user_conversations, user_greeted, user_requests >>
    /\ BotFrame

\* a handler that stores the field and asks for the next one
NextField(u, message, request, asked, state) ==
    /\ last_update' = [user |-> u, text |-> message]
    /\ user_requests' = Put(user_requests, u, request)
    /\ Saves({})
    /\ reply' = asked
    /\ conversations' = Put(conversations, u, state)
    /\ UNCHANGED << user_conversations, user_greeted >>
    /\ BotFrame

\* finish_consultation_request and finish_order_request: the request goes to
\* the group (unless send_to_group fails) and to the spreadsheet (unless
\* sheets_service fails), the record is deleted and the conversation ends
FinishRequest(u, message, request) ==
    /\ last_update' = [user |-> u, text |-> message]
    /\ group_messages' \in SUBSET {request}
    /\ sheet_rows' \in SUBSET {RequestRow(request), DialogRow(u, request.phone)}
    /\ reply' = "accepted"
    /\ user_requests' = Remove(user_requests, u)
    /\ conversations' = Remove(conversations, u)
    /\ UNCHANGED << user_conversations, user_greeted >>
    /\ BotFrame

HandleName ==
    \E u \in Users, message \in Updates :
        /\ Dispatch(StateOf(u), message) = "handle_name"
        /\ \/ FormLost(u, message)
           \/ /\ u \in DOMAIN user_requests
              /\ NextField(u, message, [user_requests[u] EXCEPT !.name = message],
                           "ask_phone", WAITING_FOR_PHONE)

HandlePhone ==
    \E u \in Users, message \in Updates :
        /\ Dispatch(StateOf(u), message) = "handle_phone"
        /\ \/ FormLost(u, message)
           \/ /\ u \in DOMAIN user_requests
              /\ user_requests[u].type = "consultation"
              /\ FinishRequest(u, message,
                               [user_requests[u] EXCEPT !.phone = message])
           \/ /\ u \in DOMAIN user_requests
              /\ user_requests[u].type = "order"
              /\ NextField(u, message, [user_requests[u] EXCEPT !.phone = message],
                           "ask_order_details", WAITING_FOR_ORDER_DETAILS)

HandleOrderDetails ==
    \E u \in Users, message \in Updates :
        /\ Dispatch(StateOf(u), message) = "handle_order_details"
        /\ \/ FormLost(u, message)
           \/ /\ u \in DOMAIN user_requests
              /\ FinishRequest(u, message,
                               [user_requests[u] EXCEPT !.order_details = message])

\* cancel
Cancel ==
    \E u \in Users, message \in Updates :
        /\ Dispatch(StateOf(u), message) = "cancel"
        /\ last_update' = [user |-> u, text |-> message]
        /\ user_requests' = Remove(user_requests, u)
        /\ Saves({})
        /\ reply' = "cancelled"
        /\ conversations' = Remove(conversations, u)
        /\ UNCHANGED << user_conversations, user_greeted >>
        /\ BotFrame

\* handle_message when openai_service.get_response returns: the two turns are
\* appended and the history is cut
Answered(u, message) ==
    /\ user_conversations' =
         Put(user_conversations, u,
             Trim(HistoryOf(u) \o << Turn("user", message),
                                     Turn("assistant", Response) >>))
    /\ user_greeted' = Put(user_greeted, u, TRUE)
    /\ Saves({DialogRow(u, message)})
    /\ reply' = "response"

\* handle_message when it raises
NotAnswered(u) ==
    /\ user_conversations' = Put(user_conversations, u, HistoryOf(u))
    /\ user_greeted' =
         IF u \in DOMAIN user_greeted THEN user_greeted
         ELSE Put(user_greeted, u, FALSE)
    /\ Saves({})
    /\ reply' = "error"

HandleMessage ==
    \E u \in Users, message \in Updates :
        /\ Dispatch(StateOf(u), message) = "handle_message"
        /\ last_update' = [user |-> u, text |-> message]
        /\ Answered(u, message) \/ NotAnswered(u)
        /\ UNCHANGED << user_requests, conversations >>
        /\ BotFrame

InitBot ==
    /\ pc = "polling"
    /\ PipelineIdle
    /\ CleanerIdle
    /\ BotIdle

NextBot ==
    \/ Start
    \/ ButtonContactManager
    \/ ButtonMakeOrder
    \/ HandleName
    \/ HandlePhone
    \/ HandleOrderDetails
    \/ Cancel
    \/ HandleMessage

SpecBot == InitBot /\ [][NextBot]_vars

(***************************************************************************)
(* Properties of the assembly (under Spec)                                  *)
(***************************************************************************)
\* assemble_by_title_anchors has returned: block_pages describes all_blocks
Assembled == pc \in {"write", "qc", "done"}

\* the normalized title of page n, as the loop reads it
TitleOf(n) == Strip(cleaned_by_page[n].top_left_title_norm)

\* the blocks whose page list holds page n
BlocksOf(n) ==
    { b \in 1..Len(block_pages) :
        \E k \in 1..Len(block_pages[b].pages) : block_pages[b].pages[k] = n }

ProductBlocksOf(n) == {b \in BlocksOf(n) : block_pages[b].kind = "product"}

\* the page list is strictly ascending
IsAscending(pages) == \A k \in 1..(Len(pages) - 1) : pages[k] < pages[k + 1]

\* the page list is a run of neighbours in the sorted page numbers
IsRun(pages) ==
    /\ Len(pages) > 0
    /\ \E start \in 1..Len(PageOrder) :
         /\ start + Len(pages) - 1 <= Len(PageOrder)
         /\ \A k \in 1..Len(pages) : pages[k] = PageOrder[start + k - 1]

\* no page up to n has a title: n precedes the first titled page
BeforeFirstTitle(n) ==
    \A m \in DOMAIN cleaned_by_page : m <= n => TitleOf(m) = << >>

\* the pages before the first titled page, in order
LeadingPages == SelectSeq(PageOrder, BeforeFirstTitle)

\* C1: anchor preservation.  When the pipeline is done, find_missing_anchors
\* has no missing anchor in any category: every article code, bilingual title,
\* pH mention and subheading found in the raw page texts is found in the
\* blocks joined by blank lines.
AnchorPreservation == pc = "done" => DOMAIN missing = {}

\* C2, as stated: every page is in exactly one block, and every block's page
\* list is strictly ascending and a run of neighbouring pages.
BlockPartition ==
    Assembled =>
        /\ \A n \in DOMAIN cleaned_by_page : Cardinality(BlocksOf(n)) = 1
        /\ \A b \in 1..Len(block_pages) :
             IsAscending(block_pages[b].pages) /\ IsRun(block_pages[b].pages)

\* C2, amended: no page is in two blocks; a page is in no block exactly when
\* it precedes the first titled page and the section text rendered from the
\* pages before the first titled page is blank (the section block is then
\* omitted); every block's page list is strictly ascending and a run of
\* neighbouring pages.
BlockPartitionAmended ==
    Assembled =>
        /\ \A n \in DOMAIN cleaned_by_page :
             /\ Cardinality(BlocksOf(n)) <= 1
             /\ BlocksOf(n) = {} <=>
                  /\ BeforeFirstTitle(n)
                  /\ IsBlank(_create_section_block(LeadingPages, cleaned_by_page))
        /\ \A b \in 1..Len(block_pages) :
             IsAscending(block_pages[b].pages) /\ IsRun(block_pages[b].pages)

\* a document whose leading blank page is in no block, followed by a product
\* of two pages
BlockPartitionWitness ==
    /\ Assembled
    /\ \E n \in DOMAIN cleaned_by_page : BlocksOf(n) = {}
    /\ \E b \in 1..Len(block_pages) : Len(block_pages[b].pages) >= 2

\* C3: two neighbouring pages with non-empty normalized titles are in the same
\* product block if and only if the titles are equal.
TitleChangeIsBoundary ==
    Assembled =>
        \A i \in 1..(Len(PageOrder) - 1) :
            LET a == PageOrder[i]
                b == PageOrder[i + 1]
            IN  (TitleOf(a) # << >> /\ TitleOf(b) # << >>) =>
                    /\ ProductBlocksOf(a) # {}
                    /\ ProductBlocksOf(b) # {}
                    /\ (ProductBlocksOf(a) = ProductBlocksOf(b)) <=> (TitleOf(a) = TitleOf(b))

\* a document with two neighbouring pages of one title and two neighbouring
\* pages of different titles
TitleChangeWitness ==
    /\ Assembled
    /\ \E i, j \in 1..(Len(PageOrder) - 1) :
         /\ TitleOf(PageOrder[i]) # << >>
         /\ TitleOf(PageOrder[i]) = TitleOf(PageOrder[i + 1])
         /\ TitleOf(PageOrder[j]) # << >>
         /\ TitleOf(PageOrder[j + 1]) # << >>
         /\ TitleOf(PageOrder[j]) # TitleOf(PageOrder[j + 1])

\* C4: the step for a page without a title leaves the block list and the open
\* product's title as they are, and appends the page to the open product's
\* pages if a product is open and to the section pages otherwise; the step
\* after the last page appends the open product, with the pages it has, to
\* the block list.
UntitledPageStep ==
    [][ /\ (InLoop /\ TitleNorm = << >>) =>
            /\ all_blocks' = all_blocks
            /\ block_pages' = block_pages
            /\ current_product_title' = current_product_title
            /\ IF Truthy(current_product_title)
               THEN /\ current_product_pages' = Append(current_product_pages, PageNum)
                    /\ section_pages' = section_pages
               ELSE /\ section_pages' = Append(section_pages, PageNum)
                    /\ current_product_pages' = current_product_pages
        /\ (pc = "loop" /\ page_idx > Len(PageOrder) /\ Truthy(current_product_title)) =>
            /\ Len(all_blocks') = Len(all_blocks) + 1
            /\ block_pages' = Append(block_pages, [ kind |-> "product",
                                                    pages |-> current_product_pages,
                                                    title |-> current_product_title ])
      ]_vars

\* a document with a page without a title in the section, another in a
\* product, and that product closed after the last page
UntitledPageWitness ==
    /\ Assembled
    /\ Len(block_pages) >= 2
    /\ block_pages[1].kind = "section"
    /\ LET last == block_pages[Len(block_pages)]
       IN  /\ last.kind = "product"
           /\ TitleOf(last.pages[Len(last.pages)]) = << >>
           /\ last.pages[Len(last.pages)] = PageOrder[Len(PageOrder)]

\* C5: there is at most one section block; its pages all precede the first
\* titled page; it is the first block; and there is none when the section
\* text is blank.
SectionBlock ==
    Assembled =>
        LET sections == {b \in 1..Len(block_pages) : block_pages[b].kind = "section"}
        IN  /\ Cardinality(sections) <= 1
            /\ Len(all_blocks) = Len(block_pages)
            /\ \A b \in sections :
                 /\ b = 1
                 /\ \A k \in 1..Len(block_pages[b].pages) :
                      BeforeFirstTitle(block_pages[b].pages[k])
                 /\ ~IsBlank(all_blocks[b])
            /\ IsBlank(_create_section_block(LeadingPages, cleaned_by_page)) =>
                 sections = {}

\* a document whose section block has two pages and is followed by a product
SectionBlockWitness ==
    /\ Assembled
    /\ Len(block_pages) >= 2
    /\ block_pages[1].kind = "section"
    /\ Len(block_pages[1].pages) = 2
    /\ block_pages[2].kind = "product"

\* the input of the end-to-end scenario
ScenarioPages ==
    (1 :> Page(Texts.TitleKrem, << >>, Texts.BodyArticle111))
      @@ (2 :> Page(<< >>, << >>, Words.Ph55))
      @@ (3 :> Page(Texts.TitleTonik, << >>, Texts.BodyArticle222))

\* C6: for the three pages of the scenario the pipeline ends with exactly two
\* blocks, both products: the first of pages 1 and 2, with "Artikul 111" and
\* "pH 5.5" in it, the second of page 3, with "Artikul 222" in it; and quality
\* control misses no anchor.
EndToEndScenario ==
    (pc = "done" /\ raw_text_by_page = ScenarioPages) =>
        /\ Len(all_blocks) = 2
        /\ block_pages[1].kind = "product"
        /\ block_pages[2].kind = "product"
        /\ block_pages[1].pages = << 1, 2 >>
        /\ block_pages[2].pages = << 3 >>
        /\ Contains(all_blocks[1], Texts.BodyArticle111)
        /\ Contains(all_blocks[1], Words.Ph55)
        /\ Contains(all_blocks[2], Texts.BodyArticle222)
        /\ cleaned_text = all_blocks[1] \o << 10, 10 >> \o all_blocks[2]
        /\ DOMAIN missing = {}
        /\ qc_passed

\* the pipeline is done with the scenario
EndToEndWitness == pc = "done" /\ raw_text_by_page = ScenarioPages

(***************************************************************************)
(* Properties of title resolution (under SpecResolve)                       *)
(***************************************************************************)
\* the call searched the table and english_lower is not a key of it
FuzzySearched ==
    /\ pc = "resolved"
    /\ EnglishLower # None
    /\ \A i \in 1..Len(title_lookup) : title_lookup[i].key # EnglishLower

\* the items whose key holds english_lower as a substring
SubstringMatches ==
    {i \in 1..Len(title_lookup) : Contains(title_lookup[i].key, EnglishLower)}

\* the items whose key starts with english_lower
PrefixMatches ==
    {i \in 1..Len(title_lookup) : StartsWith(title_lookup[i].key, EnglishLower)}

\* C7: when no entry is found and the text has no title lines before an
\* article code, the returned title is the ROI title as it is.
TitleFallback ==
    ( /\ pc = "resolved"
      /\ lookup_value = NoEntry
      /\ ~Truthy(_find_english_title_in_text(page_text))
      /\ ~Truthy(_find_russian_title_before_article(page_text)) ) =>
        full_title = title_from_roi

\* C8: when english_lower is not a key, the entry found is one whose key holds
\* english_lower, and no such key is longer than the found entry's; with
\* "cleans" and an entry keyed "cleansing milk" that entry is found, and with
\* keys "milk" and "cleansing milk" both holding the candidate, the entry of
\* "cleansing milk" is found.
LongestKeyWins ==
    FuzzySearched =>
        /\ IF SubstringMatches = {} THEN lookup_value = NoEntry
           ELSE /\ \E i \in SubstringMatches : lookup_value = title_lookup[i]
                /\ \A j \in SubstringMatches :
                     Len(title_lookup[j].key) <= Len(lookup_value.key)
        /\ ( /\ EnglishLower = Lower(Words.Cleans)
             /\ \E i \in 1..Len(title_lookup) : title_lookup[i] = Entries.CleansingMilk )
             => lookup_value = Entries.CleansingMilk
        /\ ( /\ \E i \in SubstringMatches : title_lookup[i] = Entries.Milk
             /\ \E i \in SubstringMatches : title_lookup[i] = Entries.CleansingMilk )
             => lookup_value = Entries.CleansingMilk

\* the candidate "ilk" against the keys "milk" and "cleansing milk", the
\* shorter key first
LongestKeyWitness ==
    /\ FuzzySearched
    /\ EnglishLower = Lower(Words.Ilk)
    /\ title_lookup = << Entries.Milk, Entries.CleansingMilk >>
    /\ lookup_value = Entries.CleansingMilk

\* C9: when english_lower is not a key and some key starts with it, the key of
\* the entry found starts with it.
PrefixPreferred ==
    (FuzzySearched /\ PrefixMatches # {}) =>
        /\ lookup_value # NoEntry
        /\ StartsWith(lookup_value.key, EnglishLower)

\* C10: when an entry is found, the returned title is the entry's Russian
\* title, " / ", and the entry's English title.
LookupPrecedence ==
    (pc = "resolved" /\ lookup_value # NoEntry) =>
        full_title = lookup_value.ru \o Words.Slash \o lookup_value.en

\* an entry found by a partial match, for a text whose lines before the
\* article code give another Russian and another English title
LookupPrecedenceWitness ==
    /\ FuzzySearched
    /\ lookup_value # NoEntry
    /\ Truthy(_find_russian_title_before_article(page_text))
    /\ _find_russian_title_before_article(page_text) # lookup_value.ru
    /\ _find_english_title_in_text(page_text) # lookup_value.en
    /\ Truthy(RoiRussian(title_from_roi))

\* C24: when no lookup entry is found and the combined text has Cyrillic lines
\* that qualify within the 8 lines above its first article-code line, the
\* Russian part of the final title of a product (its ROI title is not empty)
\* is those lines joined by blanks, whether the ROI title is bilingual or
\* Russian-only.
RussianTitleRecovered ==
    pc = "resolved" =>
        LET recovered == _find_russian_title_before_article(page_text)
        IN  (/\ Strip(title_from_roi) # << >>
             /\ lookup_value = NoEntry
             /\ recovered # None) =>
                \/ full_title = recovered
                \/ Prefix(full_title, Len(recovered) + 3) = recovered \o Words.Slash

(***************************************************************************)
(* Properties of the lookup (under SpecLookup)                              *)
(***************************************************************************)
\* the occurrences of title_pattern in one text, in text order: the key and
\* the two groups of each match
RECURSIVE OccurrencesIn(_, _, _)
OccurrencesIn(text, starts, n) ==
    IF n > Len(starts) THEN << >>
    ELSE << [ key |-> Lower(TitleGroup2(text, starts[n])),
              ru |-> TitleGroup1(text, starts[n]),
              en |-> TitleGroup2(text, starts[n]) ] >>
           \o OccurrencesIn(text, starts, n + 1)

\* the occurrences on the pages order[n], order[n + 1], ... up to the page
\* order[last], in page order
RECURSIVE OccurrencesOf(_, _, _, _)
OccurrencesOf(pages, order, n, last) ==
    IF n > Len(order) \/ n > last THEN << >>
    ELSE OccurrencesIn(pages[order[n]].full_text,
                       TitleFindIter(pages[order[n]].full_text, 1), 1)
           \o OccurrencesOf(pages, order, n + 1, last)

\* the occurrences on the first five pages of the document
Occurrences == OccurrencesOf(cleaned_by_page, PageOrder, 1, LookupPages)

LookupBuilt == pc = "loop"

\* C11: the table has one entry for each key that occurs on the scanned
\* pages, and the entry of a key is the first, in page then text order, of
\* the occurrences of the key whose Russian string is longest.
LongestRussianWins ==
    LookupBuilt =>
        LET occ == Occurrences
        IN  /\ \A i \in 1..Len(occ) :
                 \E j \in 1..Len(title_lookup) : title_lookup[j].key = occ[i].key
            /\ \A j, k \in 1..Len(title_lookup) :
                 title_lookup[j].key = title_lookup[k].key => j = k
            /\ \A j \in 1..Len(title_lookup) :
                 LET same == { i \in 1..Len(occ) : occ[i].key = title_lookup[j].key }
                     longest == { i \in same :
                                    \A k \in same : Len(occ[k].ru) <= Len(occ[i].ru) }
                 IN  /\ same # {}
                     /\ title_lookup[j] = occ[Min(longest)]

\* a key with two longest occurrences of different Russian strings: the entry
\* holds the earlier of the two
LongestRussianWitness ==
    /\ LookupBuilt
    /\ LET occ == Occurrences
       IN  \E i, k \in 1..Len(occ) :
             /\ i < k
             /\ occ[i].key = occ[k].key
             /\ Len(occ[i].ru) = Len(occ[k].ru)
             /\ occ[i].ru # occ[k].ru
             /\ \E j \in 1..Len(title_lookup) : title_lookup[j] = occ[i]

\* a key whose later occurrence has the longer Russian string and replaced
\* the value of the earlier one
LongerReplacesWitness ==
    /\ LookupBuilt
    /\ LET occ == Occurrences
       IN  \E i, k \in 1..Len(occ) :
             /\ i < k
             /\ occ[i].key = occ[k].key
             /\ Len(occ[i].ru) < Len(occ[k].ru)
             /\ \E j \in 1..Len(title_lookup) : title_lookup[j] = occ[k]

\* the complete English title of the occurrence at p: the whole run of
\* English title characters after the slash, trimmed
CompleteEnglish(text, p) ==
    Strip(SubSeq(text, TitleEnStart(text, p),
                 SkipWhile("IsEnTail", text, TitleEnStart(text, p)) - 1))

\* the occurrences in one text with their complete titles
RECURSIVE CompleteIn(_, _, _)
CompleteIn(text, starts, n) ==
    IF n > Len(starts) THEN << >>
    ELSE << [ key |-> Lower(CompleteEnglish(text, starts[n])),
              ru |-> TitleGroup1(text, starts[n]),
              en |-> CompleteEnglish(text, starts[n]) ] >>
           \o CompleteIn(text, starts, n + 1)

RECURSIVE CompleteOf(_, _, _, _)
CompleteOf(pages, order, n, last) ==
    IF n > Len(order) \/ n > last THEN << >>
    ELSE CompleteIn(pages[order[n]].full_text,
                    TitleFindIter(pages[order[n]].full_text, 1), 1)
           \o CompleteOf(pages, order, n + 1, last)

\* C12: for every title occurrence on the first five pages the table has an
\* entry keyed by the complete lowercased English title, whose value is the
\* complete Russian and the complete English title of an occurrence with that
\* key; and every entry comes from the first five pages.
CompleteTitles ==
    LookupBuilt =>
        LET occ == CompleteOf(cleaned_by_page, PageOrder, 1, LookupPages)
        IN  /\ \A i \in 1..Len(occ) :
                 \E j \in 1..Len(title_lookup) :
                   /\ title_lookup[j].key = occ[i].key
                   /\ \E k \in 1..Len(occ) : title_lookup[j] = occ[k]
            /\ \A j \in 1..Len(title_lookup) :
                 \E i \in 1..Len(occ) : title_lookup[j].ru = occ[i].ru

\* the part of C12 that holds: the entries are those of the first five pages
\* alone, whatever the later pages hold
FirstFivePagesOnly ==
    LookupBuilt =>
        title_lookup =
            _build_title_lookup(
                [n \in { m \in DOMAIN cleaned_by_page : m < LookupPages } |->
                    cleaned_by_page[n]])

\* a sixth page with a title whose key is on none of the first five pages
SixthPageWitness ==
    /\ LookupBuilt
    /\ Len(PageOrder) > LookupPages
    /\ LET late == OccurrencesOf(cleaned_by_page, PageOrder, LookupPages + 1,
                                 Len(PageOrder))
       IN  \E i \in 1..Len(late) :
             \A j \in 1..Len(title_lookup) : title_lookup[j].key # late[i].key

(***************************************************************************)
(* Properties of repeated runs (under SpecRuns)                             *)
(***************************************************************************)
\* a run is past the head of assemble_by_title_anchors
InRun == pc \in {"loop", "section", "write"}

\* C13: in every run, each entry of the table is an occurrence on the pages
\* of the run, and each product block is the block that the table built from
\* the pages of the run alone gives.
NoCrossDocumentState ==
    InRun =>
        LET occ == Occurrences
            own == _build_title_lookup(cleaned_by_page)
        IN  /\ \A j \in 1..Len(title_lookup) :
                 \E i \in 1..Len(occ) : title_lookup[j] = occ[i]
            /\ \A b \in 1..Len(all_blocks) :
                 block_pages[b].kind = "product" =>
                   all_blocks[b] =
                     _create_product_block(own, block_pages[b].title,
                                           block_pages[b].pages, cleaned_by_page)

\* a run on a TextAssembler that came with an entry of an earlier document
\* whose key does not occur on the pages of the run, and one whose key does
\* with another Russian title; the run has made a product block
EarlierDocumentWitness ==
    /\ pc = "write"
    /\ LET occ == Occurrences
       IN  /\ \E j \in 1..Len(previous_lookup) :
                \A i \in 1..Len(occ) : occ[i].key # previous_lookup[j].key
    /\ \E j \in 1..Len(previous_lookup) :
         /\ previous_lookup[j].key = Lower(TitleGroup2(Texts.TitleKrem, 1))
         /\ \A i \in 1..Len(title_lookup) : title_lookup[i] # previous_lookup[j]
    /\ \E b \in 1..Len(all_blocks) : block_pages[b].kind = "product"

(***************************************************************************)
(* Properties of the extraction (under SpecExtract)                         *)
(***************************************************************************)
\* the page map has a page whose body text is not blank
HasText(pages) == \E n \in DOMAIN pages : Strip(pages[n].full_text) # << >>

\* extract() is still running
Extracting == pc \in {"extract", "pdfplumber", "ocr", "raise"}

\* extract() has returned a page map
Extracted == ~Extracting /\ exit_status # << 1 >>

StrategyOrder == << "PyMuPDF", "pdfplumber", "OCR" >>

\* C14: the strategies called are the first ones of PyMuPDF, pdfplumber,
\* OCR, in that order, and OCR only when it is available; extract() returns
\* the result of the last strategy called, which has a page with non-blank
\* text; a strategy is called only after a result without such a page, and
\* none is called after a result with one.
StrategyOrderKept ==
    /\ [](/\ Len(attempted) <= Len(StrategyOrder)
          /\ attempted = SubSeq(StrategyOrder, 1, Len(attempted))
          /\ (Len(attempted) = Len(StrategyOrder) => ocr_available)
          /\ (Extracted =>
                /\ attempted # << >>
                /\ raw_text_by_page = result
                /\ HasText(result)))
    /\ [][ /\ (attempted' # attempted /\ attempted # << >>) => ~HasText(result)
           /\ (attempted # << >> /\ HasText(result)) => attempted' = attempted ]_vars

\* extract() has returned the result of OCR, after PyMuPDF and pdfplumber
\* gave pages of blank text only, and the pipeline has gone on with it
FallbackWitness ==
    /\ pc = "assemble"
    /\ attempted = StrategyOrder
    /\ HasText(raw_text_by_page)
    /\ \E n \in DOMAIN raw_text_by_page : ~HasText([m \in {n} |-> raw_text_by_page[m]])

\* C15: when the last strategy that extract() can call has given no page
\* with non-blank text, or OCR has raised, extract() raises: nothing is
\* cleaned, assembled, written or checked, and the command ends with status
\* 1; and the page map that is cleaned and assembled has every page of the
\* document.
FatalExtractionFailure ==
    /\ (pc = "raise" \/ exit_status = << 1 >>) =>
         /\ ~HasText(result)
         /\ raw_text_by_page = NoPages
         /\ cleaned_by_page = NoPages
         /\ all_blocks = << >>
         /\ cleaned_text = None
         /\ missing = << >>
         /\ ~qc_passed
    /\ (~HasText(result) /\ pc \notin {"extract", "pdfplumber", "ocr"}) =>
         /\ pc \in {"raise", "exit"}
         /\ pc = "exit" => exit_status = << 1 >>
    /\ (pc = "ocr" /\ ~ocr_available) => ~HasText(result)
    /\ pc = "exit" => exit_status \in {<< 0 >>, << 1 >>}
    /\ Extracted =>
         /\ DOMAIN raw_text_by_page = 0..(page_count - 1)
         /\ pc # "clean" => DOMAIN cleaned_by_page = 0..(page_count - 1)

\* the command has ended with status 1 where OCR is not available and
\* pdfplumber lost a document of two pages to an exception on one page
FatalFailureWitness ==
    /\ pc = "exit"
    /\ exit_status = << 1 >>
    /\ ~ocr_available
    /\ attempted = << "PyMuPDF", "pdfplumber" >>
    /\ Len(outcomes) = MaxDocPages
    /\ \E i, j \in 1..Len(outcomes) :
         /\ outcomes[i].kind = "raises"
         /\ outcomes[j].kind = "text"
         /\ Strip(outcomes[j].page.full_text) # << >>

\* the command has ended with status 1 after the call of OCR raised
OcrRaisedWitness ==
    /\ pc = "exit"
    /\ exit_status = << 1 >>
    /\ attempted = StrategyOrder
    /\ outcomes = << >>

\* C16: when reading a page raised in the strategy just called (PyMuPDF or
\* pdfplumber), the result has one record for each page of the document, the
\* record of a page that raised has empty fields, and the record of every
\* other page is what was read.
PageErrorsAreLocal ==
    ( /\ attempted # << >>
      /\ attempted[Len(attempted)] \in {"PyMuPDF", "pdfplumber"}
      /\ \E i \in 1..Len(outcomes) : outcomes[i].kind = "raises" ) =>
        /\ DOMAIN result = 0..(page_count - 1)
        /\ \A n \in DOMAIN result :
             IF outcomes[n + 1].kind = "raises"
             THEN result[n] = Page(<< >>, << >>, << >>)
             ELSE result[n].full_text = outcomes[n + 1].page.full_text

\* what holds of C16: an exception inside the title and composition helpers
\* of PyMuPDF costs the page its title and composition only
HelperErrorsAreLocal ==
    ( /\ attempted # << >>
      /\ attempted[Len(attempted)] = "PyMuPDF"
      /\ \A i \in 1..Len(outcomes) : outcomes[i].kind # "raises" ) =>
        /\ DOMAIN result = 0..(page_count - 1)
        /\ \A n \in DOMAIN result :
             IF outcomes[n + 1].kind = "roi_raises"
             THEN result[n] = Page(<< >>, << >>, outcomes[n + 1].page.full_text)
             ELSE result[n] = outcomes[n + 1].page

(***************************************************************************)
(* Properties of quality control and of cleaning (under Spec)               *)
(***************************************************************************)
AnchorTypes == {"articles", "product_titles", "ph_values", "subheadings"}

\* check_quality has returned
Checked == pc \in {"done", "exit"}

\* the set the report gives for an anchor type: a type that is not in the
\* report has no missing anchor
Reported(t) == IF t \in DOMAIN missing THEN missing[t] ELSE {}

\* C17: for each anchor type the reported missing set is the set of the
\* anchors of the raw page texts minus the anchors of the final text, and
\* check_quality returns True exactly when that set is empty for every type.
QcVerdict ==
    Checked =>
        LET raw == extract_anchors_from_raw(
                       [n \in DOMAIN raw_text_by_page |-> raw_text_by_page[n].full_text])
            final == extract_anchors_from_cleaned(cleaned_text)
        IN  /\ DOMAIN missing \subseteq AnchorTypes
            /\ \A t \in AnchorTypes : Reported(t) = raw[t] \ final[t]
            /\ qc_passed <=> \A t \in AnchorTypes : raw[t] \ final[t] = {}

\* a failed check: an anchor type with a missing anchor, and a type that has
\* anchors in the final text and none missing
QcVerdictWitness ==
    /\ Checked
    /\ ~qc_passed
    /\ \E t \in AnchorTypes : Reported(t) # {}
    /\ \E t \in AnchorTypes :
         /\ Reported(t) = {}
         /\ extract_anchors_from_cleaned(cleaned_text)[t] # {}

\* C18: the step of quality control changes neither the blocks nor the
\* written text and always ends in the return of check_quality; the command
\* ends with status 0 whether the check passed or not.
QcIsAdvisory ==
    /\ [][pc = "qc" =>
            /\ all_blocks' = all_blocks
            /\ cleaned_text' = cleaned_text
            /\ cleaned_by_page' = cleaned_by_page
            /\ pc' = "done"]_vars
    /\ [](pc = "exit" => exit_status = << 0 >>)

\* the command has ended with status 0 after a failed check
QcIsAdvisoryWitness ==
    /\ pc = "exit"
    /\ ~qc_passed
    /\ DOMAIN missing # {}
    /\ exit_status = << 0 >>

\* the command has ended after a check that passed
QcPassedWitness ==
    /\ pc = "exit"
    /\ qc_passed
    /\ exit_status = << 0 >>

\* clean_text has returned
Cleaned == pc \notin {"clean", "exit"} \/ (pc = "exit" /\ exit_status = << 0 >>)

\* C19: the map clean_text returns has the page numbers of its input, and
\* each page has the title, raw and normalized, and the composition of the
\* input page; the input map stays as it was.
CleanerFrame ==
    /\ [](Cleaned =>
            /\ DOMAIN cleaned_by_page = DOMAIN raw_text_by_page
            /\ \A n \in DOMAIN cleaned_by_page :
                 /\ cleaned_by_page[n].top_left_title_raw
                      = raw_text_by_page[n].top_left_title_raw
                 /\ cleaned_by_page[n].top_left_title_norm
                      = raw_text_by_page[n].top_left_title_norm
                 /\ cleaned_by_page[n].composition = raw_text_by_page[n].composition)
    /\ [][pc = "clean" => raw_text_by_page' = raw_text_by_page]_vars

\* cleaning changed the text of a page that has a title and a composition,
\* and there is a page of blank text
CleanerFrameWitness ==
    /\ pc = "assemble"
    /\ \E n \in DOMAIN cleaned_by_page :
         /\ cleaned_by_page[n].full_text # raw_text_by_page[n].full_text
         /\ raw_text_by_page[n].top_left_title_raw # << >>
         /\ raw_text_by_page[n].composition # << >>
    /\ \E n \in DOMAIN raw_text_by_page : Strip(raw_text_by_page[n].full_text) = << >>

(***************************************************************************)
(* Properties of fix_hyphenation (under SpecHyphen)                         *)
(***************************************************************************)
\* a lowercase letter
IsLowerLetter(c) == IsLetter(c) /\ ~IsUpper(c)

\* the position after the whitespace that follows the hyphen at i
AfterHyphen(s, i) == SkipWhile("IsSpace", s, i + 1)

\* the hyphen at i ends a word, and whitespace and a lowercase continuation
\* follow it
IsWrap(s, i) ==
    /\ s[i] = 45
    /\ i > 1
    /\ IsWord(s[i - 1])
    /\ AfterHyphen(s, i) > i + 1
    /\ AfterHyphen(s, i) <= Len(s)
    /\ IsLowerLetter(s[AfterHyphen(s, i)])

\* the text from i on with every such hyphen and its whitespace taken out,
\* and nothing else changed
RECURSIVE JoinWraps(_, _)
JoinWraps(s, i) ==
    IF i > Len(s) THEN << >>
    ELSE IF IsWrap(s, i) THEN JoinWraps(s, AfterHyphen(s, i))
    ELSE << s[i] >> \o JoinWraps(s, i + 1)

\* C20: the text returned is the argument with each hyphen that ends a word
\* and is followed by whitespace and a lowercase continuation taken out
\* together with that whitespace, and with nothing else changed.
OnlyWrapsJoined ==
    pc = "fixed" => dehyphenated = JoinWraps(hyphenated, 1)

\* what holds of C20: the two examples are joined, a text where no hyphen is
\* followed by whitespace is returned as it is, and every difference that
\* JoinWraps makes is made
WrapsJoined ==
    pc = "fixed" =>
        /\ hyphenated = << 1075, 1080, 1076, 1088, 1086, 45, 32,
                           1083, 1080, 1079, 1086, 1074, 1072, 1085, 1085, 1099, 1081 >>
             => dehyphenated = << 1075, 1080, 1076, 1088, 1086,
                                  1083, 1080, 1079, 1086, 1074, 1072, 1085, 1085, 1099, 1081 >>
        /\ hyphenated = << 1101, 1082, 1089, 1090, 1088, 1072, 45, 10, 1082, 1090 >>
             => dehyphenated = << 1101, 1082, 1089, 1090, 1088, 1072, 1082, 1090 >>
        /\ (\A i \in 1..(Len(hyphenated) - 1) :
              hyphenated[i] = 45 => ~IsSpace(hyphenated[i + 1]))
             => dehyphenated = hyphenated
        /\ fix_hyphenation(JoinWraps(hyphenated, 1)) = dehyphenated

\* a hyphen after a word, followed by a space and an uppercase letter or a
\* digit, has been taken out
UppercaseJoinedWitness ==
    /\ pc = "fixed"
    /\ \E i \in 2..(Len(hyphenated) - 2) :
         /\ hyphenated[i] = 45
         /\ IsWord(hyphenated[i - 1])
         /\ IsSpace(hyphenated[i + 1])
         /\ ~IsLowerLetter(hyphenated[i + 2])
         /\ IsWord(hyphenated[i + 2])
    /\ \A i \in 1..Len(dehyphenated) : dehyphenated[i] # 45

(***************************************************************************)
(* Properties of remove_list_markers (under SpecMarkers)                    *)
(***************************************************************************)
\* s is a list marker: a bullet glyph, '-' or '*', digits and a closer, roman
\* numerals and a closer, or one letter and a closer
IsListMarker(s) ==
    \/ Len(s) = 1 /\ s[1] \in {8226, 183, 9642, 9643, 45, 42}
    \/ /\ Len(s) >= 2
       /\ \A i \in 1..(Len(s) - 1) : IsDigit(s[i])
       /\ s[Len(s)] \in {46, 41, 45}
    \/ /\ Len(s) >= 2
       /\ \A i \in 1..(Len(s) - 1) : s[i] \in {73, 86, 88, 105, 118, 120}
       /\ s[Len(s)] \in {46, 41}
    \/ Len(s) = 2 /\ IsLetter(s[1]) /\ s[2] \in {46, 41, 45}

\* after its indentation the line has a list marker that ends at k and that
\* whitespace follows
MarkerBefore(line, k) ==
    /\ k < Len(line)
    /\ IsSpace(line[k + 1])
    /\ \E j \in 0..(k - 1) :
         /\ \A i \in 1..j : IsSpace(line[i])
         /\ IsListMarker(SubSeq(line, j + 1, k))

\* s holds nothing but whitespace and list markers that whitespace follows
RECURSIVE OnlyMarkers(_)
OnlyMarkers(s) ==
    \/ \A i \in 1..Len(s) : IsSpace(s[i])
    \/ \E k \in 1..(Len(s) - 1) :
         /\ MarkerBefore(s, k)
         /\ OnlyMarkers(SubSeq(s, k + 2, Len(s)))

\* line without its indentation
Unindented(line) == From(line, SkipWhile("IsSpace", line, 1))

\* what remove_list_markers made of the line: its end, after a marker that
\* whitespace follows where it has one, and whole but for the indentation
\* where it has none
MarkerStripped(line, kept) ==
    /\ Len(kept) <= Len(line)
    /\ kept = SubSeq(line, Len(line) - Len(kept) + 1, Len(line))
    /\ OnlyMarkers(SubSeq(line, 1, Len(line) - Len(kept)))
    /\ \A k \in 1..(Len(line) - 1) :
         MarkerBefore(line, k) => Len(kept) < Len(line) - k
    /\ (\A k \in 1..(Len(line) - 1) : ~MarkerBefore(line, k))
         => kept = Unindented(line)

\* C21: remove_list_markers removes a list marker at the start of a line only
\* when whitespace follows the marker: a line whose marker a non-whitespace
\* character follows keeps it, the text after the marker is never removed, and
\* the two list items of the examples lose their markers.
ListMarkersStripped ==
    pc = "unmarked" =>
        LET lines == SplitLines(cleaner_arg)
            kept == SplitLines(cleaner_ret)
        IN  /\ Len(kept) = Len(lines)
            /\ \A i \in 1..Len(lines) : MarkerStripped(lines[i], kept[i])
            /\ cleaner_arg = << 8226, 32, 32, 1053, 1072, 1085, 1086, 1089, 1080,
                                1090, 1100, 32, 1091, 1090, 1088, 1086, 1084 >>
                 => cleaner_ret = << 1053, 1072, 1085, 1086, 1089, 1080, 1090,
                                     1100, 32, 1091, 1090, 1088, 1086, 1084 >>
            /\ cleaner_arg = << 49, 41, 32, 1057, 1084, 1099, 1090, 1100, 32,
                                1074, 1086, 1076, 1086, 1081 >>
                 => cleaner_ret = << 1057, 1084, 1099, 1090, 1100, 32, 1074,
                                     1086, 1076, 1086, 1081 >>

\* a line that starts with a hyphen and a letter kept the hyphen, next to a
\* line that lost its marker "- "
ListMarkersWitness ==
    /\ pc = "unmarked"
    /\ cleaner_arg = << 45, 86, 10, 45, 32 >>
    /\ cleaner_ret = << 45, 86, 10 >>

(***************************************************************************)
(* Properties of merge_lines_in_sentences (under SpecMerge)                 *)
(***************************************************************************)
\* the rule: the line current is joined with the line next_line that follows
\* it
JoinedByRule(current, next_line) ==
    /\ current # << >>
    /\ ~EndsSentence(current)
    /\ next_line # << >>
    /\ ~(/\ IsUpper(next_line[1])
         /\ Len(next_line) < SubheadingLen
         /\ EndsSection(current))

\* the lines the rule makes of lines[i - 1..], current being what lines[i - 1]
\* has been joined to
RECURSIVE MergedByRule(_, _, _)
MergedByRule(lines, i, current) ==
    IF i > Len(lines) THEN << current >>
    ELSE IF JoinedByRule(Strip(lines[i - 1]), Strip(lines[i]))
         THEN MergedByRule(lines, i + 1, current \o << 32 >> \o Strip(lines[i]))
    ELSE << current >> \o MergedByRule(lines, i + 1, Strip(lines[i]))

\* C22: merge_lines_in_sentences joins a non-blank line that does not end in
\* '.', '!' or '?' with the non-blank line that follows it, except in exactly
\* one case: the next line starts with an uppercase letter, is shorter than 50
\* characters, and the current line ends with ';' or ':'.
LineMergeRule ==
    pc = "merged" =>
        LET lines == SplitLines(cleaner_arg)
        IN  cleaner_ret = Join(MergedByRule(lines, 2, Strip(lines[1])), NL)

\* the position after the token of s that starts at i
RECURSIVE TokenEnd(_, _)
TokenEnd(s, i) ==
    IF i > Len(s) \/ IsSpace(s[i]) THEN i ELSE TokenEnd(s, i + 1)

\* s.split(): the whitespace-separated tokens of s[i..]
RECURSIVE TokensFrom(_, _)
TokensFrom(s, i) ==
    IF i > Len(s) THEN << >>
    ELSE IF IsSpace(s[i]) THEN TokensFrom(s, i + 1)
    ELSE << SubSeq(s, i, TokenEnd(s, i) - 1) >> \o TokensFrom(s, TokenEnd(s, i))

\* the tokens of the lines first..last
TokensOfLines(lines, first, last) ==
    TokensFrom(Join(SubSeq(lines, first, last), NL), 1)

\* C28: the whitespace-separated tokens of merge_lines_in_sentences' output
\* are those of its input, in the same order, and a blank line of the input
\* is a blank line of the output with the same tokens before it and after it:
\* lines that a blank line separates are never joined.
MergeKeepsTokens ==
    pc = "merged" =>
        LET lines == SplitLines(cleaner_arg)
            merged == SplitLines(cleaner_ret)
        IN  /\ TokensFrom(cleaner_ret, 1) = TokensFrom(cleaner_arg, 1)
            /\ \A k \in 1..Len(lines) :
                 Strip(lines[k]) = << >> =>
                     \E m \in 1..Len(merged) :
                         /\ merged[m] = << >>
                         /\ TokensOfLines(merged, 1, m - 1)
                              = TokensOfLines(lines, 1, k - 1)
                         /\ TokensOfLines(merged, m + 1, Len(merged))
                              = TokensOfLines(lines, k + 1, Len(lines))

\* two lines were joined, and a blank line stands between the joined line and
\* a third
MergeKeepsTokensWitness ==
    /\ pc = "merged"
    /\ cleaner_arg = << 1072, 10, 1072, 10, 10, 1072 >>
    /\ cleaner_ret = << 1072, 32, 1072, 10, 10, 1072 >>

(***************************************************************************)
(* Properties of the cleaning rules (under SpecClean)                       *)
(***************************************************************************)
\* C23: cleaning a cleaned page text again does not reduce the number of its
\* whitespace-separated tokens: clean(clean(t)) has as many tokens as
\* clean(t).
CleaningNearIdempotent ==
    pc = "cleaned_twice" =>
        Len(TokensFrom(cleaner_ret, 1)) = Len(TokensFrom(cleaner_arg, 1))

(***************************************************************************)
(* Properties of the blocks (under SpecBlocks)                              *)
(***************************************************************************)
\* combined_text of the product block made of the pages
CombinedText(pages) == Join(PageTexts(pages, cleaned_by_page), << 10, 10 >>)

\* the resolved title of the b-th block, a product block
ResolvedTitle(b) ==
    _resolve_full_title(title_lookup, block_pages[b].title,
                        CombinedText(block_pages[b].pages))

\* C25: the composition placed after the title of a product block is the
\* composition field of the block's first member page whenever that field is
\* not empty, and the composition of no later page is used.
HeaderComposition ==
    pc = "write" =>
        \A b \in 1..Len(all_blocks) :
            block_pages[b].kind = "product" =>
                all_blocks[b] =
                    ProductBlock(
                        BlockHeader(
                            ResolvedTitle(b),
                            Strip(cleaned_by_page[block_pages[b].pages[1]].composition)),
                        clean_block(CombinedText(block_pages[b].pages)))

\* the number of product blocks
ProductBlockCount ==
    Cardinality({b \in 1..Len(block_pages) : block_pages[b].kind = "product"})

\* the pages 0, 1, 2 carry the titles A, B, A
TitlesABA ==
    /\ DOMAIN cleaned_by_page = 0..2
    /\ TitleOf(0) = Texts.TitleKrem
    /\ TitleOf(1) = Texts.TitleTonik
    /\ TitleOf(2) = Texts.TitleKrem

\* C26: once a page with a different non-empty title has closed a product
\* block, a later page that carries the earlier title again is in another
\* block than the pages before the change; pages titled A, B, A give three
\* product blocks.
ClosedBlockStaysClosed ==
    pc = "write" =>
        /\ \A n1, n2, n3 \in DOMAIN cleaned_by_page :
             (/\ n1 < n2 /\ n2 < n3
              /\ TitleOf(n1) # << >>
              /\ TitleOf(n3) = TitleOf(n1)
              /\ TitleOf(n2) # << >>
              /\ TitleOf(n2) # TitleOf(n1))
               => /\ BlocksOf(n1) # {} /\ BlocksOf(n3) # {}
                  /\ BlocksOf(n1) \cap BlocksOf(n3) = {}
        /\ TitlesABA => ProductBlockCount = 3

\* the pages titled A, B, A have been assembled into three blocks
ClosedBlockWitness ==
    /\ pc = "write"
    /\ TitlesABA
    /\ Len(all_blocks) = 3

\* the lines of s that are not blank
NonBlankLines(s) == SelectSeq(SplitLines(s), LAMBDA l : ~IsBlank(l))

\* the header of the b-th block, a product block: block_header
HeaderOf(b) ==
    BlockHeader(ResolvedTitle(b),
                FirstPageComposition(block_pages[b].pages, cleaned_by_page))

\* the b-th block with the header of a product block set aside
BodyOf(b) ==
    IF block_pages[b].kind = "product"
    THEN From(all_blocks[b], Len(HeaderOf(b)) + 1)
    ELSE all_blocks[b]

\* the non-blank lines of the blocks from the b-th on
RECURSIVE LinesOfBlocks(_)
LinesOfBlocks(b) ==
    IF b > Len(all_blocks) THEN << >>
    ELSE NonBlankLines(BodyOf(b)) \o LinesOfBlocks(b + 1)

\* the non-blank lines of the cleaned full_text of the pages order[k..]
RECURSIVE LinesOfPages(_, _)
LinesOfPages(order, k) ==
    IF k > Len(order) THEN << >>
    ELSE NonBlankLines(cleaned_by_page[order[k]].full_text)
           \o LinesOfPages(order, k + 1)

\* C27: every product block starts with its header, and the non-blank lines
\* of the blocks, the headers set aside, are the non-blank lines of the pages'
\* cleaned full_text in ascending page order.
NoCleanedTextLost ==
    pc = "write" =>
        /\ \A b \in 1..Len(all_blocks) :
             block_pages[b].kind = "product" =>
                 Prefix(all_blocks[b], Len(HeaderOf(b))) = HeaderOf(b)
        /\ LinesOfBlocks(1) = LinesOfPages(Sorted(DOMAIN cleaned_by_page), 1)

\* a section block and a product block of two pages with text, one of them
\* with blank lines in it
NoCleanedTextLostWitness ==
    /\ pc = "write"
    /\ Len(all_blocks) = 2
    /\ block_pages[1].kind = "section"
    /\ block_pages[2].pages = << 1, 2 >>
    /\ TitleOf(2) = << >>
    /\ ~IsBlank(cleaned_by_page[1].full_text)

(***************************************************************************)
(* Properties of the bot (under SpecBot)                                    *)
(***************************************************************************)
\* C29: after any sequence of /start commands and text messages the history
\* of a user holds at most 20 entries.
HistoryBounded ==
    \A u \in DOMAIN user_conversations : Len(user_conversations[u]) <= 20

\* the user has a request form in progress
FormInProgress(u) ==
    StateOf(u) \in {WAITING_FOR_NAME, WAITING_FOR_PHONE, WAITING_FOR_ORDER_DETAILS}

\* C30: while a request form of a user is in progress, the /cancel command and
\* the text message of the second fallback both cancel it: the record of the
\* user in user_requests is deleted, the conversation ends, and nothing goes
\* to the manager group or to the sheets of requests.
FormCancelled ==
    [][\A u \in Users :
         (/\ FormInProgress(u)
          /\ last_update'.user = u
          /\ last_update'.text \in {CancelCommand, CancelText})
           => /\ u \notin DOMAIN user_requests'
              /\ u \notin DOMAIN conversations'
              /\ group_messages' = {}
              /\ \A row \in sheet_rows' : row.sheet = "dialogs"]_vars

=============================================================================
